---- MODULE Spec2Model ----
(***************************************************************************)
(* Provisioning orchestration and post-deployment validation of the        *)
(* Proxmox VM deployer backend (backend/app), as state machines.           *)
(*                                                                         *)
(*   SpecWait      ProxmoxService.wait_for_task polling one remote task    *)
(*   SpecValidate  ValidationService.validate_vm                           *)
(*   SpecOrch      TemplateService.clone_from_template, VMService.create_vm *)
(*   SpecConcurrent  two validate_vm invocations interleaved               *)
(*   SpecLoops     either wait loop, with fair scheduling                  *)
(*   SpecConfig    the create endpoint: validate_vm_config, then create_vm *)
(*   SpecClient    ProxmoxService operations over the cached connection    *)
(*   SpecIds       a batch, or two orchestrations interleaved             *)
(*   SpecBatch     the batch-clone and batch-create endpoints, each item   *)
(*                 run by TemplateService.clone_from_template or           *)
(*                 VMService.create_vm                                     *)
(*                                                                         *)
(* Time is in whole seconds.  A clock is read where the code reads         *)
(* time.time(); it advances by the length of each sleep and by the         *)
(* duration (0..MaxLatency) of each remote call.                           *)
(***************************************************************************)
EXTENDS Integers, Sequences, FiniteSets, TLC

VARIABLES
    w,       \* the running wait_for_task call: its locals, clock and history
    task,    \* the remote task the control plane runs for that call
    val,     \* the validate_vm invocations: locals, clock and history of each
    orch,    \* the running clone_from_template / create_vm call
    cp,      \* the control plane: the VM ids in use
    audit,   \* the audit log, oldest record first
    batch,   \* the running batch endpoint: its locals and history
    cfg,     \* a create payload on its way through validate_vm_config
    px,      \* the ProxmoxService client: its cached connection, the call in flight
    peer     \* a second clone_from_template / create_vm call, suspended

vars == <<w, task, val, orch, cp, audit, batch, cfg, px, peer>>

----------------------------------------------------------------------------
(* Bounds of the model *)

\* largest timeout handed to a stand-alone wait_for_task
MaxTimeout == 5
\* longest duration, in seconds, of one remote call
MaxLatency == 1
\* number of validate_vm invocations the model holds
NumValRuns == 2
\* longest list of requests handed to a batch endpoint
MaxBatch == 2
\* address queries each of the concurrent validate_vm invocations may make
MaxQueries == 2

----------------------------------------------------------------------------
(* ProxmoxService.wait_for_task  (services/proxmox_service.py 266-292) *)

\* time.sleep(2) after a poll that found the task still running
PollSleep == 2
\* time.sleep(2) in the except branch, after a poll that raised
ErrorSleep == 2

\* clock values at which a stand-alone wait may start
StartTimes == {0, 3}

\* the remote task: whether it ever stops, the offset from the start of the
\* wait at which it stops, and its exit status
Tasks ==
    [finishes : BOOLEAN, at : 0 .. MaxTimeout + 1, exitstatus : {"OK", "ERR"}]

\* no task
NoTask == [finishes |-> FALSE, at |-> 0, exitstatus |-> "OK"]

\* status['status'] as the control plane reports task tk, for a wait that
\* started at clock value start, at clock value t
TaskStatusAt(tk, start, t) ==
    IF tk.finishes /\ start + tk.at <= t THEN "stopped" ELSE "running"

\* while time.time() - start_time < timeout
KeepWaiting_Late(elapsed, timeout) == elapsed <= timeout
KeepWaiting_Short(elapsed, timeout) == elapsed + PollSleep < timeout
KeepWaiting(elapsed, timeout) == elapsed < timeout

\* return status.get('exitstatus') == 'OK'
TaskSucceeded_AnyExit(exitstatus) == exitstatus \in {"OK", "ERR"}
TaskSucceeded(exitstatus) == exitstatus = "OK"

\* the sleep that follows a poll: line 287 after a normal poll, line 290
\* after one that raised
SleepAfter_ErrorLonger(pollRaised) ==
    IF pollRaised THEN ErrorSleep + 1 ELSE PollSleep
SleepAfter(pollRaised) == IF pollRaised THEN ErrorSleep ELSE PollSleep

WIdle ==
    [pc |-> "idle", timeout |-> 0, start |-> 0, now |-> 0, result |-> FALSE,
     polls |-> 0, errs |-> 0, latSum |-> 0, lastLat |-> 0,
     lastPollAt |-> 0, pollRaised |-> FALSE, sawStopped |-> FALSE,
     lateErr |-> FALSE]

\* wait_for_task(node, upid, timeout) entered at clock value t0:
\* start_time = time.time()
WaitCall(timeout, t0) ==
    [WIdle EXCEPT !.pc = "check", !.timeout = timeout, !.start = t0, !.now = t0]

\* the loop condition of line 280; the loop falls through to return False
WLoopCheck(wr) ==
    IF KeepWaiting(wr.now - wr.start, wr.timeout)
       THEN [wr EXCEPT !.pc = "poll"]
       ELSE [wr EXCEPT !.pc = "done", !.result = FALSE]

\* one get_task_status call on task tk (lines 281-285, 289): it takes d
\* seconds and either raises or reports the task's status
WPoll(wr, tk, d, raised) ==
    LET stopped == TaskStatusAt(tk, wr.start, wr.now) = "stopped"
        base == [wr EXCEPT !.now = wr.now + d,
                           !.polls = wr.polls + 1,
                           !.latSum = wr.latSum + d,
                           !.lastLat = d,
                           !.lastPollAt = wr.now,
                           !.pollRaised = raised]
    IN  IF raised
           THEN [base EXCEPT !.pc = "sleep",
                             !.errs = wr.errs + 1,
                             !.lateErr = wr.lateErr \/ stopped]
           ELSE IF stopped
                   THEN [base EXCEPT !.pc = "done",
                                     !.sawStopped = TRUE,
                                     !.result = TaskSucceeded(tk.exitstatus)]
                   ELSE [base EXCEPT !.pc = "sleep"]

\* time.sleep(2) of line 287 or of line 290, then back to the loop condition
WSleep(wr) ==
    [wr EXCEPT !.pc = "check", !.now = wr.now + SleepAfter(wr.pollRaised)]

W_LoopCheck ==
    /\ w.pc = "check"
    /\ w' = WLoopCheck(w)
    /\ UNCHANGED <<peer, px, cfg, task, val, orch, cp, audit, batch>>

W_Poll ==
    /\ w.pc = "poll"
    /\ \E d \in 0 .. MaxLatency, raised \in BOOLEAN :
         w' = WPoll(w, task, d, raised)
    /\ UNCHANGED <<peer, px, cfg, task, val, orch, cp, audit, batch>>

W_Sleep ==
    /\ w.pc = "sleep"
    /\ w' = WSleep(w)
    /\ UNCHANGED <<peer, px, cfg, task, val, orch, cp, audit, batch>>

\* A whole wait_for_task call, for a caller that blocks on it: every value
\* the call can return for task tk when each poll takes one of the durations
\* in lat and may raise.  WaitRound runs one iteration of the loop from the
\* loop condition at clock value now.  A WaitRun holds the clock values at
\* which the condition is evaluated next (frontier) and the values returned
\* so far; WaitRounds runs n iterations from it, WaitReturns runs
\* iterations until no call is left in the loop.
WaitAt(timeout, now) == [WaitCall(timeout, 0) EXCEPT !.now = now]
WaitRound(timeout, now, tk, lat) ==
    LET c == WLoopCheck(WaitAt(timeout, now))
    IN  IF c.pc = "done" THEN {c}
        ELSE {LET p == WPoll(c, tk, d, raised)
              IN  IF p.pc = "done" THEN p ELSE WSleep(p) :
                 d \in lat, raised \in BOOLEAN}

WaitRun(frontier, returned) == [frontier |-> frontier, returned |-> returned]

RECURSIVE WaitRounds(_, _, _, _, _)
WaitRounds(timeout, run, tk, lat, n) ==
    IF n = 0 \/ run.frontier = {} THEN run
    ELSE IF n = 1
       THEN LET next == UNION {WaitRound(timeout, now, tk, lat) :
                                  now \in run.frontier}
            IN  WaitRun({r.now : r \in {q \in next : q.pc # "done"}},
                        run.returned \cup
                           {r.result : r \in {q \in next : q.pc = "done"}})
    ELSE WaitRounds(timeout,
                    WaitRounds(timeout, run, tk, lat, n \div 2),
                    tk, lat, n - (n \div 2))

RECURSIVE WaitReturns(_, _, _, _, _)
WaitReturns(timeout, run, tk, lat, n) ==
    LET after == WaitRounds(timeout, run, tk, lat, n)
    IN  IF after.frontier = {} THEN after.returned
        ELSE WaitReturns(timeout, after, tk, lat, 2 * n)

WaitForTask(timeout, tk, lat) ==
    WaitReturns(timeout, WaitRun({0}, {}), tk, lat, 1)

----------------------------------------------------------------------------
(* ValidationService.validate_vm  (services/validation_service.py) *)

\* settings.validation_timeout, the default of the timeout argument
ValidationTimeout == 300
\* _wait_for_ip(vmid, timeout=120) as validate_vm calls it
IpWaitTimeout == 120
\* retry_interval of _wait_for_ip
IpRetryInterval == 10
\* settings.validation_ssh_port and settings.validation_rdp_port
SshPort == 22
RdpPort == 3389
\* settings.validation_retry_interval, the connect timeout of the port probe
PortTimeout == 15

ValRuns == 1 .. NumValRuns
\* Optional[str] and Optional node: None is the empty value
NoNode == ""
NoIp == << >>
Nodes == {"pve1"}
\* the vmid the r-th invocation validates
FirstVmid == 100
VmidOf(r) == FirstVmid + r - 1
OsTypes == {"linux", "windows"}
\* the timeout argument; 0 stands for an omitted (None) timeout
TimeoutArgs == {0, 10, ValidationTimeout}

\* what get_vm_status returns or raises
StatusReplies ==
    {"running", "stopped", "unknown", "VMNotFoundError", "ProxmoxConnectionError"}

\* guest addresses as the agent reports them: the address as its octets
IpLoopback == <<127, 0, 0, 1>>
IpGuest == <<10, 0, 0, 5>>
IpV6 == <<0, 0, 0, 0, 0, 0, 0, 1>>
IpSecond == <<192, 168, 1, 7>>
AddrLo == [ip |-> IpLoopback, type |-> "ipv4"]
AddrGuest == [ip |-> IpGuest, type |-> "IPv4"]
AddrV6 == [ip |-> IpV6, type |-> "ipv6"]
AddrSecond == [ip |-> IpSecond, type |-> "ipv4"]
AddrEmpty == [ip |-> NoIp, type |-> "ipv4"]
\* one interface: whether it has the 'ip-addresses' key, and the list under it
Iface(addrs) == [hasAddrs |-> TRUE, addrs |-> addrs]
IfaceBare == [hasAddrs |-> FALSE, addrs |-> << >>]
\* what get_vm_network_interfaces returns: None when the agent call fails,
\* else the list of interfaces
IfaceReplies ==
    { [ok |-> FALSE, ifaces |-> << >>],
      [ok |-> TRUE, ifaces |-> << >>],
      [ok |-> TRUE, ifaces |-> <<IfaceBare>>],
      [ok |-> TRUE, ifaces |-> <<Iface(<<AddrLo, AddrV6, AddrEmpty>>)>>],
      [ok |-> TRUE, ifaces |-> <<Iface(<<AddrLo>>),
                                 Iface(<<AddrV6, AddrGuest, AddrSecond>>),
                                 Iface(<<AddrSecond>>)>>] }

\* ip_info.get('ip-address-type', '').lower()
Lower(s) == IF s = "IPv4" THEN "ipv4" ELSE IF s = "IPv6" THEN "ipv6" ELSE s
\* ip.startswith('127.')
StartsWith127(ip) == Len(ip) >= 1 /\ ip[1] = 127

\* if ip and ip_type == 'ipv4' and not ip.startswith('127.')  (line 216)
Routable(a) == a.ip # NoIp /\ Lower(a.type) = "ipv4" /\ ~StartsWith127(a.ip)

\* the nested loops of lines 209-219: the first routable address, in order
RECURSIVE FirstRoutable_Last(_)
FirstRoutable_Last(addrs) ==
    IF addrs = << >> THEN NoIp
    ELSE IF FirstRoutable_Last(Tail(addrs)) # NoIp
       THEN FirstRoutable_Last(Tail(addrs))
    ELSE IF Routable(Head(addrs)) THEN Head(addrs).ip
    ELSE NoIp
RECURSIVE FirstRoutable(_)
FirstRoutable(addrs) ==
    IF addrs = << >> THEN NoIp
    ELSE IF Routable(Head(addrs)) THEN Head(addrs).ip
    ELSE FirstRoutable(Tail(addrs))

RECURSIVE ScanIfaces(_)
ScanIfaces(ifaces) ==
    IF ifaces = << >> THEN NoIp
    ELSE LET here == IF Head(ifaces).hasAddrs
                        THEN FirstRoutable(Head(ifaces).addrs)
                        ELSE NoIp
         IN  IF here # NoIp THEN here ELSE ScanIfaces(Tail(ifaces))

\* _get_vm_ip_address (lines 186-222), given what find_vm_node and
\* get_vm_network_interfaces answer
GetVmIpAddress(nodeRes, ifaceRes) ==
    IF nodeRes = NoNode THEN NoIp
    ELSE IF ~ifaceRes.ok \/ ifaceRes.ifaces = << >> THEN NoIp
    ELSE ScanIfaces(ifaceRes.ifaces)

\* a ValidationCheck; kind stands for its message and details
Check(name, passed, kind) ==
    [name |-> name, passed |-> passed, required |-> TRUE, kind |-> kind]

\* _check_proxmox_status (lines 92-152)
CheckProxmoxStatus(nodeRes, statusRes) ==
    IF nodeRes = NoNode
       THEN Check("proxmox_status", FALSE, "not_found")
    ELSE IF statusRes = "VMNotFoundError"
       THEN Check("proxmox_status", FALSE, "not_found")
    ELSE IF statusRes = "ProxmoxConnectionError"
       THEN Check("proxmox_status", FALSE, "status_error")
    ELSE IF statusRes = "running"
       THEN Check("proxmox_status", TRUE, "running")
    ELSE Check("proxmox_status", FALSE, "not_running")

\* what one connect attempt of check_port_open ends in (utils/port_checker.py
\* 20-70); "raised" is the except branch of _check_port itself
ProbeOutcomes == {"open", "timeout", "refused", "dns", "error", "raised"}

\* port and port_name of lines 57-58
PortFor_AlwaysSsh(osType) == SshPort
PortFor(osType) == IF osType = "linux" THEN SshPort ELSE RdpPort
PortCheckName(osType) == IF osType = "linux" THEN "ssh_port" ELSE "rdp_port"

\* _check_port (lines 224-256)
CheckPort(osType, outcome) ==
    Check(PortCheckName(osType), outcome = "open", outcome)

\* checks[name] = check on a dict that keeps insertion order
RECURSIVE DictSet(_, _)
DictSet(d, c) ==
    IF d = << >> THEN <<c>>
    ELSE IF Head(d).name = c.name THEN <<c>> \o Tail(d)
    ELSE <<Head(d)>> \o DictSet(Tail(d), c)

\* lines 63-66: the status the aggregate step gives
AllRequiredPassed_Any(checks) ==
    \E i \in DOMAIN checks : checks[i].required /\ checks[i].passed
AllRequiredPassed(checks) ==
    \A i \in DOMAIN checks : checks[i].required => checks[i].passed
AggregateStatus(checks) ==
    IF AllRequiredPassed(checks) THEN "healthy" ELSE "degraded"

NoResult ==
    [vmid |-> 0, status |-> "none", ip |-> NoIp, checks |-> << >>,
     message |-> "none"]

ValIdle ==
    [pc |-> "idle", vmid |-> 0, osType |-> "linux", timeoutArg |-> 0,
     timeout |-> 0, checks |-> << >>, ip |-> NoIp,
     start |-> 0, ipStart |-> 0, now |-> 0,
     outcome |-> "none", result |-> NoResult,
     liveness |-> "none", queries |-> 0, ifaceAsked |-> FALSE,
     probes |-> << >>,
     exhausted |-> FALSE, aggregated |-> FALSE, escaped |-> FALSE]

\* timeout = timeout or self.settings.validation_timeout  (line 37)
EffectiveTimeout(timeoutArg) ==
    IF timeoutArg = 0 THEN ValidationTimeout ELSE timeoutArg

\* validate_vm(vmid, os_type, timeout) entered: lines 37-38
ValidateCall(vmid, osType, timeoutArg) ==
    [ValIdle EXCEPT !.pc = "liveness", !.vmid = vmid, !.osType = osType,
                    !.timeoutArg = timeoutArg,
                    !.timeout = EffectiveTimeout(timeoutArg)]

\* return ValidationResult(...)
Returned_SharedMap(v, status, ip, checks, message) ==
    LET other == CHOOSE s \in DOMAIN val : val[s].vmid # v.vmid
        shared == checks \o val[other].checks
    IN  [v EXCEPT !.pc = "done", !.outcome = "returned", !.checks = shared,
                  !.result = [vmid |-> v.vmid, status |-> status, ip |-> ip,
                              checks |-> shared, message |-> message]]
Returned(v, status, ip, checks, message) ==
    [v EXCEPT !.pc = "done", !.outcome = "returned", !.checks = checks,
              !.result = [vmid |-> v.vmid, status |-> status, ip |-> ip,
                          checks |-> checks, message |-> message]]

\* the address-wait sub-timeout validate_vm passes to _wait_for_ip (line 45)
IpWaitBudget(v) == IpWaitTimeout

\* Step 1 (line 42): _check_proxmox_status, then _wait_for_ip reads the clock
V_Liveness(r) ==
    /\ val[r].pc = "liveness"
    /\ \E nodeRes \in Nodes \cup {NoNode}, statusRes \in StatusReplies,
          d \in 0 .. MaxLatency :
         LET v == val[r]
             c == CheckProxmoxStatus(nodeRes, statusRes)
         IN  val' = [val EXCEPT ![r] =
                 [v EXCEPT !.pc = "ipcheck",
                           !.checks = DictSet(v.checks, c),
                           !.liveness = IF c.passed THEN "passed" ELSE c.kind,
                           !.now = v.now + d,
                           !.ipStart = v.now + d]]
    /\ UNCHANGED <<peer, px, cfg, w, task, orch, cp, audit, batch>>

\* if not ip_address: return ValidationResult(status="degraded", ...)
\* (lines 47-54)
ExhaustedReturn_Aggregate(v) ==
    Returned([v EXCEPT !.exhausted = TRUE],
             AggregateStatus(v.checks), NoIp, v.checks, "no_ip")
ExhaustedReturn(v) ==
    Returned([v EXCEPT !.exhausted = TRUE], "degraded", NoIp, v.checks, "no_ip")

\* the loop condition of _wait_for_ip (line 173); when it fails the loop
\* returns None and validate_vm returns at lines 47-54
V_IpLoopCheck(r) ==
    /\ val[r].pc = "ipcheck"
    /\ LET v == val[r]
       IN  IF v.now - v.ipStart < IpWaitBudget(v)
              THEN val' = [val EXCEPT ![r] = [v EXCEPT !.pc = "ipquery"]]
              ELSE val' = [val EXCEPT ![r] = ExhaustedReturn(v)]
    /\ UNCHANGED <<peer, px, cfg, w, task, orch, cp, audit, batch>>

\* one _get_vm_ip_address call (lines 175-177)
V_IpQuery(r) ==
    /\ val[r].pc = "ipquery"
    /\ \E nodeRes \in Nodes \cup {NoNode}, ifaceRes \in IfaceReplies,
          d \in 0 .. MaxLatency :
         LET v == val[r]
             ip == GetVmIpAddress(nodeRes, ifaceRes)
             asked == [v EXCEPT !.queries = v.queries + 1,
                                !.ifaceAsked = v.ifaceAsked \/ nodeRes # NoNode,
                                !.now = v.now + d]
         IN  IF ip # NoIp
                THEN val' = [val EXCEPT ![r] =
                         [asked EXCEPT !.pc = "port", !.ip = ip]]
                ELSE val' = [val EXCEPT ![r] = [asked EXCEPT !.pc = "ipsleep"]]
    /\ UNCHANGED <<peer, px, cfg, w, task, orch, cp, audit, batch>>

\* await asyncio.sleep(retry_interval)  (line 179)
V_IpSleep(r) ==
    /\ val[r].pc = "ipsleep"
    /\ val' = [val EXCEPT ![r] =
           [val[r] EXCEPT !.pc = "ipcheck", !.now = val[r].now + IpRetryInterval]]
    /\ UNCHANGED <<peer, px, cfg, w, task, orch, cp, audit, batch>>

\* Steps 3 and 4 (lines 56-75): one probe, its check, the aggregate, return
V_PortCheck(r) ==
    /\ val[r].pc = "port"
    /\ \E outcome \in ProbeOutcomes, d \in 0 .. MaxLatency :
         LET v == val[r]
             took == IF outcome = "timeout" THEN PortTimeout ELSE d
             checks == DictSet(v.checks, CheckPort(v.osType, outcome))
             status == AggregateStatus(checks)
             probed == [v EXCEPT
                          !.probes = Append(v.probes,
                              [ip |-> v.ip, port |-> PortFor(v.osType),
                               outcome |-> outcome]),
                          !.now = v.now + took,
                          !.aggregated = TRUE]
         IN  val' = [val EXCEPT ![r] =
                 Returned(probed, status, v.ip, checks,
                          IF status = "healthy" THEN "all_passed"
                                                ELSE "some_failed")]
    /\ UNCHANGED <<peer, px, cfg, w, task, orch, cp, audit, batch>>

\* except Exception (lines 77-90): an exception that escapes one of the
\* awaited steps is recorded as the check "error" and the result is unhealthy
ExceptReturn_Raise(v) ==
    [v EXCEPT !.pc = "done", !.outcome = "raised", !.escaped = TRUE]
ExceptReturn(v) ==
    Returned([v EXCEPT !.escaped = TRUE], "unhealthy", NoIp,
             DictSet(v.checks, Check("error", FALSE, "exception")), "exception")

V_Unexpected(r) ==
    /\ val[r].pc \in {"liveness", "ipquery", "ipsleep", "port"}
    /\ val' = [val EXCEPT ![r] = ExceptReturn(val[r])]
    /\ UNCHANGED <<peer, px, cfg, w, task, orch, cp, audit, batch>>

----------------------------------------------------------------------------
(* Provisioning orchestrators: TemplateService.clone_from_template
   (services/template_service.py 129-247) and VMService.create_vm
   (services/vm_service.py 24-155) *)

\* settings.vmid_min, settings.vmid_max
VmidMin == 150
VmidMax == 999
\* settings.default_node
DefaultNode == "pve1"
\* the timeout create_vm hands to wait_for_task (vm_service.py line 104)
CreateWaitTimeout == 120
\* the template the clone requests name
TemplateVmid == 9000

NoTaskId == ""
NoMessage == << >>

\* An exception: its class and the parts of str(e), outermost prefix first
Error(class, msg) == [class |-> class, msg |-> msg]
NoError == Error("", NoMessage)

\* CloneResponse / VMCreateResponse
Response(vmid, name, node, status, message, task_id) ==
    [vmid |-> vmid, name |-> name, node |-> node, status |-> status,
     message |-> message, task_id |-> task_id]
NoResponse == Response(0, "", "", "", NoMessage, NoTaskId)

\* One record of the audit log (services/audit_service.py): the fields of
\* log_vm_creation, log_template_clone and log_batch_operation entries
AuditEntry(operation, status, name, vm_id, node, task_id, error) ==
    [operation |-> operation, status |-> status, vm_name |-> name,
     vm_id |-> vm_id, node |-> node, task_id |-> task_id,
     error |-> error, total |-> 0, successful |-> 0, failed |-> 0,
     operations |-> << >>]
NoAudit == AuditEntry("", "", "", 0, "", "", NoMessage)

\* A CloneRequest or a VMCreateRequest.  has_vmid is FALSE where the field
\* new_vmid / vmid is None; cores and memory are 0 where a CloneRequest
\* leaves them None.
Request(op, name, has_vmid, vmid, node, cores, memory, disk_size, os_type, tags, cloudinit, start) ==
    [op |-> op, name |-> name, source_vmid |-> TemplateVmid,
     has_vmid |-> has_vmid, vmid |-> vmid, node |-> node,
     cores |-> cores, memory |-> memory, disk_size |-> disk_size,
     os_type |-> os_type, tags |-> tags, cloudinit |-> cloudinit,
     start |-> start]
NoRequest == Request("", "", FALSE, 0, NoNode, 0, 0, 0, "", FALSE, FALSE, FALSE)

\* if not new_vmid  /  if not vmid: None and 0 are both falsy
VmidAbsent(req) == ~req.has_vmid \/ req.vmid = 0

\* if new_vmid < self.settings.vmid_min or new_vmid > self.settings.vmid_max
OutOfRange_Exclusive(vmid) == vmid < VmidMin - 1 \/ vmid > VmidMax + 1
OutOfRange(vmid) == vmid < VmidMin \/ vmid > VmidMax

\* request.node or self.settings.default_node
TargetNode(req) == IF req.node = NoNode THEN DefaultNode ELSE req.node

\* if request.cores or request.memory or request.tags
WantsCustomization(req) == req.cores # 0 \/ req.memory # 0 \/ req.tags

\* The remote tasks a submitted clone or create may turn out to be; at is
\* counted from the submission
OrchTasks ==
    {[finishes |-> FALSE, at |-> 0, exitstatus |-> "OK"],
     [finishes |-> TRUE, at |-> 0, exitstatus |-> "OK"],
     [finishes |-> TRUE, at |-> 0, exitstatus |-> "ERR"],
     [finishes |-> TRUE, at |-> CreateWaitTimeout - 1, exitstatus |-> "OK"]}

\* wait_for_task as the orchestrators call it: the values it can return, by
\* timeout, task and duration of a poll
WaitTimeouts == {CreateWaitTimeout, ValidationTimeout}
WaitOutcomes ==
    [timeout \in WaitTimeouts |->
       [tk \in OrchTasks |->
          [d \in 0 .. MaxLatency |-> WaitForTask(timeout, tk, {d})]]]

\* the ids cluster.nextid answers with, and the replies of the other calls
NextIdReplies == {VmidMin - 1, VmidMin, VmidMin + 1}
ConfigReplies == {"template", "not_template", "not_found", "unreachable"}
UpdateReplies == {"ok", "not_found", "unreachable"}
CloudInitReplies == {"ok", "error"}
StartReplies == {"ok", "not_found", "unreachable"}

\* the exception a failed call of the Proxmox client raises
\* (proxmox_service.py 98-105, 209-222, 294-301)
ClientError(reply, what) ==
    IF reply = "not_found"
       THEN Error("VMNotFoundError", <<"VM not found on node">>)
       ELSE Error("ProxmoxConnectionError", <<what, "connection refused">>)

\* One control-plane call, as the history of an orchestration records it;
\* the replies are recorded next to the calls, in the same order
Call(name, node, vmid) == [call |-> name, node |-> node, vmid |-> vmid]

OrchIdle ==
    [pc |-> "idle", op |-> "", req |-> NoRequest, auto_start |-> FALSE,
     source_node |-> NoNode, node |-> NoNode, vmid |-> 0,
     task_id |-> NoTaskId, tk |-> NoTask, outcome |-> "none",
     response |-> NoResponse, error |-> NoError, logged |-> NoAudit,
     calls |-> << >>, replies |-> << >>]

\* the except clauses that end an orchestrator (template_service.py 232-247,
\* vm_service.py 140-155): the classes re-raised as they are, and the class
\* and prefix every other exception is wrapped in
Reraised_DomainOnly(op) ==
    IF op = "clone" THEN {"InvalidVMIDError", "VMCloneError"}
                    ELSE {"InvalidVMIDError", "VMCreationError"}
Reraised(op) ==
    IF op = "clone"
       THEN {"TemplateNotFoundError", "InvalidVMIDError", "VMCloneError"}
       ELSE {"InvalidVMIDError", "VMCreationError"}
WrapClass(op) == IF op = "clone" THEN "VMCloneError" ELSE "VMCreationError"
WrapPrefix(op) ==
    IF op = "clone" THEN "Failed to clone template" ELSE "Failed to create VM"
\* the status code the single-request endpoints answer an exception of the
\* orchestrator with (templates.py 114-138, vms.py 62-81)
StatusCode(op, class) ==
    IF class = "TemplateNotFoundError" /\ op = "clone" THEN 404
    ELSE IF class \in {"InvalidVMIDError", WrapClass(op)} THEN 400
    ELSE IF class = "ProxmoxConnectionError" THEN 503
    ELSE 500

AuditOperation(op) ==
    IF op = "clone" THEN "template_clone" ELSE "vm_creation"

\* an exception e raised inside the try block: one failed audit record
\* (audit_service.py 78-109, 129-154: 'vm_id' is the request's id, 'node' the
\* request's node, no result; a None is written 0 or ""), then the exception
\* the caller sees
FailureAudit(o, error) ==
    AuditEntry(AuditOperation(o.op), "failed", o.req.name,
               IF VmidAbsent(o.req) THEN 0 ELSE o.req.vmid, o.req.node,
               NoTaskId, error)
Raise(o, e) ==
    IF e.class \in Reraised(o.op)
       THEN [o EXCEPT !.pc = "done", !.outcome = "raised", !.error = e,
                      !.logged = FailureAudit(o, e.msg)]
       ELSE [o EXCEPT !.pc = "done", !.outcome = "raised",
                      !.error = Error(WrapClass(o.op),
                                      <<WrapPrefix(o.op)>> \o e.msg),
                      !.logged = FailureAudit(o, <<"Unexpected error">>
                                                    \o e.msg)]

\* the response is built, one success audit record is written, and the
\* response is returned (template_service.py 210-230, vm_service.py 122-138)
Finish(o, status, message) ==
    [o EXCEPT !.pc = "done", !.outcome = "returned",
              !.response = Response(o.vmid, o.req.name, o.node, status,
                                    message, o.task_id),
              !.logged = AuditEntry(AuditOperation(o.op), "success",
                                    o.req.name,
                                    IF VmidAbsent(o.req) THEN o.vmid
                                                         ELSE o.req.vmid,
                                    o.node, o.task_id, NoMessage)]

\* the messages of a response (template_service.py 202-208,
\* vm_service.py 114-120), without the id they start with
CreatedMessage(op) ==
    IF op = "clone" THEN "cloned successfully" ELSE "created successfully"
StartedMessage(op) ==
    IF op = "clone" THEN "cloned and started successfully"
                    ELSE "created and started successfully"
StartFailedMessage(op) ==
    IF op = "clone" THEN "cloned successfully but failed to start"
                    ELSE "created but failed to start"

\* if request.start_after_clone and self.settings.enable_auto_start
\* (template_service.py 198, vm_service.py 110), else branch included
StartOrFinish_IgnoresSetting(o) ==
    IF o.req.start
       THEN [o EXCEPT !.pc = "start"]
       ELSE Finish(o, "created", <<CreatedMessage(o.op)>>)
StartOrFinish(o) ==
    IF o.req.start /\ o.auto_start
       THEN [o EXCEPT !.pc = "start"]
       ELSE Finish(o, "created", <<CreatedMessage(o.op)>>)

\* after a successful wait: template_service.py 189-198
AfterWait(o) ==
    IF o.op = "clone" /\ WantsCustomization(o.req)
       THEN [o EXCEPT !.pc = "customize"]
    ELSE IF o.op = "clone" /\ o.req.cloudinit
       THEN [o EXCEPT !.pc = "cloudinit"]
    ELSE StartOrFinish(o)

\* the range check on the id the orchestrator is about to submit
\* (template_service.py 159-163, vm_service.py 44-48)
RangeCheck_Skipped(o) == [o EXCEPT !.pc = "submit"]
RangeCheck(o) ==
    IF OutOfRange(o.vmid)
       THEN Raise(o, Error("InvalidVMIDError",
                           <<"VM ID is outside allowed range">>))
       ELSE [o EXCEPT !.pc = "submit"]

\* the id is taken from the request or asked from the control plane
\* (template_service.py 154-156, vm_service.py 39-41)
GetOrAssignVmid(o) ==
    IF VmidAbsent(o.req)
       THEN [o EXCEPT !.pc = "nextid"]
       ELSE RangeCheck([o EXCEPT !.vmid = o.req.vmid])

\* clone_from_template(request) / create_vm(request) up to its first
\* control-plane call
OrchCall(req, auto_start) ==
    LET o == [OrchIdle EXCEPT !.op = req.op, !.req = req,
                              !.auto_start = auto_start]
    IN  IF req.op = "clone"
           THEN [o EXCEPT !.pc = "find"]
           ELSE GetOrAssignVmid([o EXCEPT !.node = TargetNode(req)])

\* the audit log after a step of an orchestration that ended it or not
Logged_OnlySuccess(o) ==
    IF o.pc = "done" /\ o.outcome = "returned" THEN Append(audit, o.logged)
                                                ELSE audit
Logged(o) == IF o.pc = "done" THEN Append(audit, o.logged) ELSE audit

\* what the other variables do during a step of an orchestration
OrchFrame == UNCHANGED <<peer, px, cfg, w, task, val, batch>>

\* a request handed to clone_from_template / create_vm by an endpoint: the
\* orchestrator runs up to its first control-plane call
OrchRequested(req, auto_start) ==
    [OrchIdle EXCEPT !.pc = "called", !.op = req.op, !.req = req,
                     !.auto_start = auto_start]
O_Enter ==
    /\ orch.pc = "called"
    /\ LET o == OrchCall(orch.req, orch.auto_start)
       IN  orch' = o /\ audit' = Logged(o)
    /\ UNCHANGED cp
    /\ OrchFrame

\* self.proxmox.find_vm_node(request.source_vmid)  (141-143)
O_Find ==
    /\ orch.pc = "find"
    /\ \E reply \in Nodes \cup {NoNode} :
         LET o == [orch EXCEPT !.calls = Append(@, Call("find_vm_node", NoNode,
                                                        orch.req.source_vmid)),
                               !.replies = Append(@, reply)]
             o2 == IF reply = NoNode
                      THEN Raise(o, Error("TemplateNotFoundError",
                                          <<"Template not found">>))
                      ELSE [o EXCEPT !.pc = "config", !.source_node = reply]
         IN  orch' = o2 /\ audit' = Logged(o2)
    /\ UNCHANGED cp
    /\ OrchFrame

\* self.proxmox.get_vm_config(source_node, request.source_vmid), the
\* template flag, the target node and the id  (146-163)
O_Config ==
    /\ orch.pc = "config"
    /\ \E reply \in ConfigReplies :
         LET o == [orch EXCEPT !.calls = Append(@, Call("get_vm_config",
                                                        orch.source_node,
                                                        orch.req.source_vmid)),
                               !.replies = Append(@, reply)]
             o2 == IF reply = "template"
                      THEN GetOrAssignVmid(
                              [o EXCEPT !.node = TargetNode(o.req)])
                   ELSE IF reply = "not_template"
                      THEN Raise(o, Error("TemplateNotFoundError",
                                          <<"VM is not a template">>))
                   ELSE Raise(o, ClientError(reply, "Failed to get VM config"))
         IN  orch' = o2 /\ audit' = Logged(o2)
    /\ UNCHANGED cp
    /\ OrchFrame

\* self.proxmox.get_next_vmid(), then the range check
\* (template_service.py 156-163, vm_service.py 41-48)
NextIdAnswers ==
    {[ok |-> TRUE, vmid |-> id] : id \in NextIdReplies \ cp.used}
       \cup {[ok |-> FALSE, vmid |-> 0]}
O_NextId ==
    /\ orch.pc = "nextid"
    /\ \E reply \in NextIdAnswers :
         LET o == [orch EXCEPT !.calls = Append(@, Call("get_next_vmid",
                                                        NoNode, 0)),
                               !.replies = Append(@, IF reply.ok THEN "ok" ELSE "unreachable")]
             o2 == IF reply.ok
                      THEN RangeCheck([o EXCEPT !.vmid = reply.vmid])
                      ELSE Raise(o, ClientError("unreachable",
                                                "Failed to get next VMID"))
         IN  orch' = o2 /\ audit' = Logged(o2)
    /\ UNCHANGED cp
    /\ OrchFrame

\* the node the clone or create task is submitted to and waited for on
\* (template_service.py 169-184, vm_service.py 101-104)
TaskNode(o) == IF o.op = "clone" THEN o.source_node ELSE o.node

\* self.proxmox.clone_vm(...) / self.proxmox.create_vm(...): the id is
\* refused when it exists (proxmox_service.py 176-181, 202-207), otherwise
\* the submission is accepted as some task or refused for another reason
SubmitAnswers(vmid) ==
    IF vmid \in cp.used
       THEN {[reply |-> "exists", tk |-> NoTask]}
       ELSE {[reply |-> "accepted", tk |-> tk] : tk \in OrchTasks}
               \cup {[reply |-> "refused", tk |-> NoTask]}
SubmitCall(op) == IF op = "clone" THEN "clone_vm" ELSE "create_vm"
SubmitFailure(op) ==
    IF op = "clone" THEN "Failed to clone VM" ELSE "Failed to create VM"
\* except ResourceException as e: if "already exists" in str(e).lower():
\* raise InvalidVMIDError(...); raise VMCloneError / VMCreationError(...)
\* (proxmox_service.py 176-181, 202-207)
SubmitRefused_AsOperationError(o, reply) ==
    Raise(o, Error(WrapClass(o.op), <<SubmitFailure(o.op), reply>>))
SubmitRefused_GoesOn(o, reply) ==
    IF reply = "exists"
       THEN [o EXCEPT !.pc = "await", !.task_id = "UPID",
                      !.tk = [finishes |-> TRUE, at |-> 0, exitstatus |-> "OK"]]
       ELSE Raise(o, Error(WrapClass(o.op),
                           <<SubmitFailure(o.op), "refused">>))
SubmitRefused(o, reply) ==
    IF reply = "exists"
       THEN Raise(o, Error("InvalidVMIDError", <<"VM ID already exists">>))
       ELSE Raise(o, Error(WrapClass(o.op),
                           <<SubmitFailure(o.op), "refused">>))
O_Submit ==
    /\ orch.pc = "submit"
    /\ \E ans \in SubmitAnswers(orch.vmid) :
         LET o == [orch EXCEPT !.calls = Append(@, Call(SubmitCall(orch.op),
                                                        TaskNode(orch),
                                                        orch.vmid)),
                               !.replies = Append(@, ans.reply)]
             o2 == IF ans.reply = "accepted"
                      THEN [o EXCEPT !.pc = "await", !.task_id = "UPID",
                                     !.tk = ans.tk]
                   ELSE SubmitRefused(o, ans.reply)
         IN  /\ orch' = o2
             /\ audit' = Logged(o2)
             /\ cp' = IF ans.reply = "accepted"
                         THEN [cp EXCEPT !.used = @ \cup {orch.vmid}]
                         ELSE cp
    /\ OrchFrame

\* the wait for the submitted task and the test of its result
\* (template_service.py 180-187, vm_service.py 104-107)
WaitTimeout(op) ==
    IF op = "clone" THEN ValidationTimeout ELSE CreateWaitTimeout
WaitFailure(op) ==
    IF op = "clone" THEN "Clone operation timed out or failed"
                    ELSE "VM creation timed out or failed"
\* if not clone_success: raise VMCloneError(...)  /  if not
\* creation_success: raise VMCreationError(...)
WaitFailed_GoesOn(o) == AfterWait(o)
WaitFailed(o) == Raise(o, Error(WrapClass(o.op), <<WaitFailure(o.op)>>))
O_Await ==
    /\ orch.pc = "await"
    /\ \E d \in 0 .. MaxLatency :
         \E success \in WaitOutcomes[WaitTimeout(orch.op)][orch.tk][d] :
            LET o == [orch EXCEPT !.calls = Append(@, Call("wait_for_task",
                                                           TaskNode(orch),
                                                           orch.vmid)),
                                  !.replies = Append(@, IF success THEN "success" ELSE "no_success")]
                o2 == IF success THEN AfterWait(o) ELSE WaitFailed(o)
            IN  orch' = o2 /\ audit' = Logged(o2)
    /\ UNCHANGED cp
    /\ OrchFrame

\* except Exception as e: raise VMCloneError(f"VM cloned but ... failed:
\* {str(e)}")  (template_service.py 298-300, 333-335)
CustomizationFailure == "VM cloned but customization failed"
CloudInitFailure == "VM cloned but cloud-init configuration failed"
StepFailed_LikeWaitFailure(o, what, inner) == WaitFailed(o)
StepFailed_RollsBack(o, what, inner) ==
    Raise([o EXCEPT !.calls = Append(@, Call("delete_vm", o.node, o.vmid)),
                    !.replies = Append(@, "ok")],
          Error("VMCloneError", <<what>> \o inner))
StepFailed(o, what, inner) ==
    Raise(o, Error("VMCloneError", <<what>> \o inner))

\* self._apply_customizations(target_node, new_vmid, request)
\* (template_service.py 190-195, 268-300)
O_Customize ==
    /\ orch.pc = "customize"
    /\ \E reply \in UpdateReplies :
         LET o == [orch EXCEPT !.calls = Append(@, Call("update_vm_config",
                                                        orch.node, orch.vmid)),
                               !.replies = Append(@, reply)]
             e == ClientError(reply, "Failed to update VM config")
             o2 == IF reply # "ok"
                      THEN StepFailed(o, CustomizationFailure, e.msg)
                   ELSE IF o.req.cloudinit
                      THEN [o EXCEPT !.pc = "cloudinit"]
                   ELSE StartOrFinish(o)
         IN  orch' = o2 /\ audit' = Logged(o2)
    /\ UNCHANGED cp
    /\ OrchFrame

\* self._apply_cloudinit(target_node, new_vmid, request)
\* (template_service.py 194-198, 302-335)
O_CloudInit ==
    /\ orch.pc = "cloudinit"
    /\ \E reply \in CloudInitReplies :
         LET o == [orch EXCEPT !.calls = Append(@, Call("apply_cloudinit",
                                                        orch.node, orch.vmid)),
                               !.replies = Append(@, reply)]
             o2 == IF reply # "ok"
                      THEN StepFailed(o, CloudInitFailure, <<reply>>)
                      ELSE StartOrFinish(o)
         IN  orch' = o2 /\ audit' = Logged(o2)
    /\ UNCHANGED cp
    /\ OrchFrame

\* except Exception as e: status = "created"; message = "... failed to start"
\* (template_service.py 203-205, vm_service.py 115-117)
StartFailed_Raises(o, e) == Raise(o, e)
StartFailed_Resubmits(o, e) == [o EXCEPT !.pc = "submit"]
StartFailed(o, e) ==
    Finish(o, "created", <<StartFailedMessage(o.op)>> \o e.msg)

\* self.proxmox.start_vm(target_node, new_vmid) inside its own try
\* (template_service.py 199-205, vm_service.py 111-117)
O_Start ==
    /\ orch.pc = "start"
    /\ \E reply \in StartReplies :
         LET o == [orch EXCEPT !.calls = Append(@, Call("start_vm",
                                                        orch.node, orch.vmid)),
                               !.replies = Append(@, reply)]
             e == ClientError(reply, "Failed to start VM")
             o2 == IF reply = "ok"
                      THEN Finish(o, "started", <<StartedMessage(o.op)>>)
                      ELSE StartFailed(o, e)
         IN  orch' = o2 /\ audit' = Logged(o2)
    /\ UNCHANGED cp
    /\ OrchFrame

----------------------------------------------------------------------------
(* Batch endpoints: batch_clone_templates (api/v1/templates.py 141-224) and
   batch_create_vms (api/v1/vms.py 84-186) *)

\* VMService.validate_vm_config (vm_service.py 230-261): the issues found
ValidateVmConfig_FirstIssueOnly(req) ==
    IF req.cores < 1 \/ req.cores > 256
       THEN <<"cores must be between 1 and 256">>
    ELSE IF req.memory < 512 THEN <<"memory must be at least 512 MB">>
    ELSE IF req.disk_size < 8 THEN <<"disk_size must be at least 8 GB">>
    ELSE IF req.os_type \notin {"linux", "windows"}
       THEN <<"os_type must be 'linux' or 'windows'">>
    ELSE << >>
ValidateVmConfig(req) ==
    (IF req.cores < 1 \/ req.cores > 256
        THEN <<"cores must be between 1 and 256">> ELSE << >>)
    \o (IF req.memory < 512
           THEN <<"memory must be at least 512 MB">> ELSE << >>)
    \o (IF req.disk_size < 8
           THEN <<"disk_size must be at least 8 GB">> ELSE << >>)
    \o (IF req.os_type \notin {"linux", "windows"}
           THEN <<"os_type must be 'linux' or 'windows'">> ELSE << >>)
ConfigValid(req) == Len(ValidateVmConfig(req)) = 0

\* A create payload as a client sends it: the fields validate_vm_config
\* reads, around each of its bounds, and an os type it does not know
PayloadCores == {0, 1, 256, 257}
PayloadMemory == {0, 1, 511, 512}
PayloadDisk == {0, 1, 7, 8}
PayloadOsTypes == {"linux", "windows", "other"}
Payloads ==
    {Request("create", "cfg-01", FALSE, 0, NoNode, cores, memory, disk_size,
             os_type, FALSE, FALSE, FALSE) :
        cores \in PayloadCores, memory \in PayloadMemory,
        disk_size \in PayloadDisk, os_type \in PayloadOsTypes}

\* the field constraints of VMCreateRequest (schemas/vm.py 22, 25, 26): a
\* payload that breaks one never becomes a request
SchemaAccepts(p) ==
    /\ p.cores > 0 /\ p.cores <= 256
    /\ p.memory > 0
    /\ p.disk_size > 0

CfgIdle ==
    [pc |-> "idle", req |-> NoRequest, valid |-> FALSE, issues |-> << >>,
     invoked |-> FALSE, status |-> 0, detail |-> << >>]
CfgPayload(p) == [CfgIdle EXCEPT !.pc = "payload", !.req = p]

\* the payload is parsed into a VMCreateRequest, or refused
C_Parse ==
    /\ cfg.pc = "payload"
    /\ cfg' = [cfg EXCEPT !.pc = IF SchemaAccepts(cfg.req)
                                    THEN "parsed" ELSE "unprocessable"]
    /\ UNCHANGED <<peer, px, w, task, val, orch, cp, audit, batch>>

\* validation = vm_service.validate_vm_config(request)  (vms.py 51)
C_Validate ==
    /\ cfg.pc = "parsed"
    /\ cfg' = [cfg EXCEPT !.pc = "validated",
                          !.valid = ConfigValid(cfg.req),
                          !.issues = ValidateVmConfig(cfg.req)]
    /\ UNCHANGED <<peer, px, w, task, val, orch, cp, audit, batch>>

\* the endpoint answers: the result of create_vm with 200, or the
\* HTTPException one of its except clauses raises (vms.py 60-81)
Responded(c, code, detail) ==
    [c EXCEPT !.pc = "responded", !.status = code, !.detail = detail]

\* raise HTTPException(400, {"message": ..., "issues": ...}) inside the try
\* block (vms.py 52-56): it is none of the classes of lines 62-76, so the
\* clause of line 77 catches it and raises HTTPException(500, "Failed to
\* create VM: " + str(e))
InvalidConfiguration(c) ==
    Responded(c, StatusCode("create", "HTTPException"),
              <<"Failed to create VM", "400">> \o c.issues)

\* if not validation["valid"]: raise ...; vm_service.create_vm(request) up
\* to its first control-plane call  (vms.py 52-59)
C_Dispatch ==
    /\ cfg.pc = "validated"
    /\ IF ~cfg.valid
          THEN /\ cfg' = InvalidConfiguration(cfg)
               /\ UNCHANGED <<orch, audit>>
          ELSE LET o == OrchCall(cfg.req, TRUE)
               IN  /\ cfg' = [cfg EXCEPT !.pc = "creating", !.invoked = TRUE]
                   /\ orch' = o
                   /\ audit' = Logged(o)
    /\ UNCHANGED <<peer, px, w, task, val, cp, batch>>

\* create_vm has returned or raised: return result, or the except clauses
\* of lines 62-81
C_Return ==
    /\ cfg.pc = "creating"
    /\ orch.pc = "done"
    /\ cfg' = IF orch.outcome = "returned"
                 THEN Responded(cfg, 200, orch.response.message)
                 ELSE Responded(cfg, StatusCode("create", orch.error.class),
                                orch.error.msg)
    /\ UNCHANGED <<peer, px, w, task, val, orch, cp, audit, batch>>

\* the requests a batch is made of
BatchCloneRequests ==
    {Request("clone", "web-01", FALSE, 0, NoNode, 4, 0, 0, "", FALSE, TRUE,
             TRUE),
     Request("clone", "web-02", TRUE, VmidMin, "pve2", 0, 0, 0, "", FALSE,
             FALSE, FALSE),
     Request("clone", "web-03", TRUE, VmidMax + 1, NoNode, 0, 0, 0, "", FALSE,
             FALSE, FALSE)}
BatchCreateRequests ==
    {Request("create", "db-01", FALSE, 0, NoNode, 2, 2048, 20, "linux", FALSE,
             FALSE, TRUE),
     Request("create", "db-02", TRUE, VmidMin + 1, "pve2", 4, 8192, 50,
             "windows", FALSE, FALSE, FALSE),
     Request("create", "db-03", FALSE, 0, NoNode, 2, 256, 4, "linux", FALSE,
             FALSE, FALSE)}
BatchOps == {"clone", "create"}
BatchRequests(op) ==
    IF op = "clone" THEN BatchCloneRequests ELSE BatchCreateRequests
\* the lists of at most MaxBatch requests of one endpoint
RequestLists(op) ==
    UNION {[1 .. n -> BatchRequests(op)] : n \in 0 .. MaxBatch}

\* BatchCloneResponse / BatchVMCreateResponse
BatchResponse(results, total, successful, failed) ==
    [results |-> results, total |-> total, successful |-> successful,
     failed |-> failed]
NoBatchResponse == BatchResponse(<< >>, 0, 0, 0)

\* what happened to one item: whether its orchestrator was called, and what
\* the orchestrator returned or raised
ItemTrace(ran, outcome, response, error) ==
    [ran |-> ran, outcome |-> outcome, response |-> response, error |-> error]

BatchIdle ==
    [pc |-> "idle", op |-> "", auto_start |-> FALSE, requests |-> << >>,
     i |-> 1, results |-> << >>, successful |-> 0, failed |-> 0,
     outcome |-> "none", response |-> NoBatchResponse, trace |-> << >>]

\* results = []; successful = 0; failed = 0  (templates.py 170-172,
\* vms.py 115-117)
BatchCall(op, requests, auto_start) ==
    [BatchIdle EXCEPT !.pc = "loop", !.op = op, !.requests = requests,
                      !.auto_start = auto_start]

\* results.append(result); successful += 1
RecordSuccess(b, response) ==
    [b EXCEPT !.results = Append(@, response), !.successful = @ + 1]

\* error_result = ...Response(vmid=0, name=request.name, node="",
\* status="failed", message=..., task_id=None); results.append(error_result);
\* failed += 1
RecordFailure_Dropped(b, req, message) ==
    [b EXCEPT !.failed = @ + 1]
RecordFailure_KeepsId(b, req, message) ==
    [b EXCEPT !.results = Append(@, Response(req.vmid, req.name, "", "failed",
                                             message, NoTaskId)),
              !.failed = @ + 1]
RecordFailure(b, req, message) ==
    [b EXCEPT !.results = Append(@, Response(0, req.name, "", "failed",
                                             message, NoTaskId)),
              !.failed = @ + 1]

\* the classes the first except clause of the loop body names
\* (templates.py 179, vms.py 141)
BatchCaught(op) ==
    IF op = "clone"
       THEN {"TemplateNotFoundError", "InvalidVMIDError", "VMCloneError",
             "ProxmoxConnectionError"}
       ELSE {"InvalidVMIDError", "VMCreationError", "ProxmoxConnectionError"}

\* the two except clauses of the loop body (templates.py 179-202,
\* vms.py 141-164): the raised exception becomes a failed result and the
\* loop goes on
OnItemError_Abort(b, req, e) ==
    [b EXCEPT !.pc = "done", !.outcome = "raised"]
OnItemError(b, req, e) ==
    [RecordFailure(b, req,
                   IF e.class \in BatchCaught(b.op)
                      THEN <<"Failed">> \o e.msg
                      ELSE <<"Unexpected error">> \o e.msg)
        EXCEPT !.pc = "loop"]

\* the loop takes the next request (templates.py 174-176, vms.py 119-137):
\* batch_create_vms records an invalid configuration as a failed result and
\* continues; otherwise the orchestrator is called
B_Item ==
    /\ batch.pc = "loop"
    /\ batch.i <= Len(batch.requests)
    /\ orch.pc = "idle"
    /\ LET req == batch.requests[batch.i]
       IN  IF batch.op = "create" /\ ~ConfigValid(req)
              THEN /\ batch' =
                        [RecordFailure(batch, req,
                                       <<"Invalid configuration">>
                                          \o ValidateVmConfig(req))
                           EXCEPT !.i = @ + 1,
                                  !.trace = Append(@, ItemTrace(FALSE,
                                                "invalid", NoResponse,
                                                NoError))]
                   /\ UNCHANGED <<peer, px, cfg, orch, audit>>
              ELSE LET o == OrchCall(req, batch.auto_start)
                   IN  /\ orch' = o
                       /\ audit' = Logged(o)
                       /\ batch' = [batch EXCEPT !.pc = "item"]
    /\ UNCHANGED <<peer, px, cfg, w, task, val, cp>>

\* the orchestrator has returned or raised: the rest of the loop body
B_Collect ==
    /\ batch.pc = "item"
    /\ orch.pc = "done"
    /\ LET req == batch.requests[batch.i]
           b == [batch EXCEPT !.pc = "loop", !.i = @ + 1,
                              !.trace = Append(@, ItemTrace(TRUE, orch.outcome,
                                                            orch.response,
                                                            orch.error))]
       IN  batch' = IF orch.outcome = "returned"
                       THEN RecordSuccess(b, orch.response)
                       ELSE OnItemError(b, req, orch.error)
    /\ orch' = OrchIdle
    /\ UNCHANGED <<peer, px, cfg, w, task, val, cp, audit>>

\* log_batch_operation (audit_service.py 156-201)
\* zip(requests, results) of line 197, one summary entry per pair
ZipOperations(requests, results) ==
    [i \in 1 .. (IF Len(requests) < Len(results) THEN Len(requests)
                                                 ELSE Len(results)) |->
       [vm_name |-> requests[i].name, vm_id |-> results[i].vmid,
        status |-> results[i].status, message |-> results[i].message]]
BatchAudit_SuccessesOnly(b) ==
    [operation |-> IF b.op = "clone" THEN "batch_clone" ELSE "batch_create",
     status |-> "success",
     vm_name |-> "", vm_id |-> 0, node |-> "", task_id |-> NoTaskId,
     error |-> NoMessage, total |-> b.successful,
     successful |-> b.successful, failed |-> 0,
     operations |-> ZipOperations(b.requests,
                                  SelectSeq(b.results,
                                            LAMBDA r : r.status # "failed"))]
BatchAudit(b) ==
    [operation |-> IF b.op = "clone" THEN "batch_clone" ELSE "batch_create",
     status |-> IF b.failed > 0 THEN "partial" ELSE "success",
     vm_name |-> "", vm_id |-> 0, node |-> "", task_id |-> NoTaskId,
     error |-> NoMessage, total |-> Len(b.requests),
     successful |-> b.successful, failed |-> b.failed,
     operations |-> ZipOperations(b.requests, b.results)]

\* after the loop: the response, the batch audit record, return
\* (templates.py 204-224, vms.py 166-186)
B_Respond ==
    /\ batch.pc = "loop"
    /\ batch.i > Len(batch.requests)
    /\ batch' = [batch EXCEPT !.pc = "done", !.outcome = "returned",
                              !.response = BatchResponse(batch.results,
                                                         Len(batch.requests),
                                                         batch.successful,
                                                         batch.failed)]
    /\ audit' = Append(audit, BatchAudit(batch))
    /\ UNCHANGED <<peer, px, cfg, w, task, val, orch, cp>>

----------------------------------------------------------------------------
(* ProxmoxService: the cached connection (services/proxmox_service.py 21-55)
   and the operations issued through it *)

\* operations one client serves in the model
MaxCalls == 2

\* the operations that reach the control plane through self.proxmox once
ClientOps ==
    {"get_version", "list_nodes", "get_node_info", "get_vm_config",
     "get_vm_status", "get_next_vmid", "clone_vm", "create_vm", "start_vm",
     "get_task_status", "update_vm_config"}

\* self._proxmox = None: no connection yet, no operation in flight.
\* Connections are numbered in the order connect() opened them; live holds
\* those the control plane still accepts.
PxIdle ==
    [_proxmox |-> 0, opened |-> 0, live |-> {}, reachable |-> TRUE,
     pc |-> "idle", op |-> "none", before |-> 0, probed |-> "none",
     reconnect |-> "none", issuedOn |-> 0, reply |-> "none",
     outcome |-> "none", calls |-> 0]

\* except ResourceException: what the operation raises when the control
\* plane answers its request with an error
OnResourceException(op, reply) ==
    IF op \in {"get_version", "list_nodes", "get_next_vmid", "get_task_status"}
       THEN "ProxmoxConnectionError"
    ELSE IF op = "get_node_info" THEN "ResourceNotFoundError"
    ELSE IF op = "clone_vm"
       THEN IF reply = "exists" THEN "InvalidVMIDError" ELSE "VMCloneError"
    ELSE IF op = "create_vm"
       THEN IF reply = "exists" THEN "InvalidVMIDError" ELSE "VMCreationError"
    ELSE "VMNotFoundError"

\* except Exception: what the operation raises for anything else, a
\* ProxmoxConnectionError of connect() included
OnException(op) ==
    IF op = "clone_vm" THEN "VMCloneError"
    ELSE IF op = "create_vm" THEN "VMCreationError"
    ELSE "ProxmoxConnectionError"

\* self._proxmox.version.get() on the cached connection
ProbeAnswers(p) == p.reachable /\ p._proxmox \in p.live

\* ProxmoxAPI(...) followed by version.get(): a session, or
\* AuthenticationError, or any other exception
ConnectReplies(p) ==
    IF p.reachable THEN {"ok", "AuthenticationError"} ELSE {"Exception"}

\* the answers to the request of an operation on connection c: the result,
\* a ResourceException, or another exception when nothing answers
RequestReplies(p, c) ==
    IF ~p.reachable THEN {"transport"}
    ELSE IF c \notin p.live THEN {"resource"}
    ELSE {"ok", "resource"}
         \cup (IF p.op \in {"clone_vm", "create_vm"} THEN {"exists"} ELSE {})

\* the operation ends: it returned the answer or raised class
Ended(p, outcome) == [p EXCEPT !.pc = "done", !.outcome = outcome]

\* proxmox property, else branch: try: self._proxmox.version.get()
\* except Exception: self._proxmox = self.connect()
AfterProbe_KeepsCached(p, alive) ==
    [p EXCEPT !.pc = "request", !.probed = IF alive THEN "ok" ELSE "failed"]
AfterProbe(p, alive) ==
    IF alive THEN [p EXCEPT !.pc = "request", !.probed = "ok"]
             ELSE [p EXCEPT !.pc = "connect", !.probed = "failed"]

\* connect(): the new connection is cached and returned, or
\* ProxmoxConnectionError is raised inside the try of the operation
AfterConnect(p, reply) ==
    IF reply = "ok"
       THEN [p EXCEPT !.pc = "request", !.reconnect = "ok",
                      !.opened = p.opened + 1, !._proxmox = p.opened + 1,
                      !.live = p.live \cup {p.opened + 1}]
       ELSE Ended([p EXCEPT !.reconnect = "failed"], OnException(p.op))

\* the request of the operation, sent on the connection the property returned
AfterRequest(p, reply) ==
    LET q == [p EXCEPT !.issuedOn = p._proxmox, !.reply = reply]
    IN  IF reply = "ok" THEN Ended(q, "ok")
        ELSE IF reply = "transport" THEN Ended(q, OnException(p.op))
        ELSE Ended(q, OnResourceException(p.op, reply))

ClientFrame == UNCHANGED <<peer, w, task, val, orch, cp, audit, batch, cfg>>

\* an operation is called: self.proxmox is read first
P_Call ==
    /\ px.pc \in {"idle", "done"}
    /\ px.calls < MaxCalls
    /\ \E op \in ClientOps :
         px' = [px EXCEPT !.pc = IF px._proxmox = 0 THEN "connect" ELSE "probe",
                          !.op = op, !.before = px.opened, !.probed = "none",
                          !.reconnect = "none", !.issuedOn = 0,
                          !.reply = "none", !.outcome = "none",
                          !.calls = px.calls + 1]
    /\ ClientFrame

P_Probe ==
    /\ px.pc = "probe"
    /\ px' = AfterProbe(px, ProbeAnswers(px))
    /\ ClientFrame

P_Connect ==
    /\ px.pc = "connect"
    /\ \E reply \in ConnectReplies(px) : px' = AfterConnect(px, reply)
    /\ ClientFrame

P_Request ==
    /\ px.pc = "request"
    /\ \E reply \in RequestReplies(px, px._proxmox) :
         px' = AfterRequest(px, reply)
    /\ ClientFrame

\* the control plane drops the sessions it gave out (ticket lifetime,
\* restart of the API daemon)
P_Expire ==
    /\ px.live # {}
    /\ px' = [px EXCEPT !.live = {}]
    /\ ClientFrame

\* the control plane becomes unreachable, and reachable again
P_Outage ==
    /\ px.reachable
    /\ px' = [px EXCEPT !.reachable = FALSE]
    /\ ClientFrame
P_Restore ==
    /\ ~px.reachable
    /\ px' = [px EXCEPT !.reachable = TRUE]
    /\ ClientFrame

----------------------------------------------------------------------------
(* Specifications: one per entry point *)

\* no orchestration and no batch in progress
Quiet ==
    /\ orch = OrchIdle
    /\ cp = [used |-> {}]
    /\ audit = << >>
    /\ batch = BatchIdle
    /\ cfg = CfgIdle
    /\ px = PxIdle
    /\ peer = OrchIdle

\* one wait_for_task call on one task
InitWait ==
    /\ Quiet
    /\ val = [r \in ValRuns |-> ValIdle]
    /\ task \in Tasks
    /\ \E timeout \in 0 .. MaxTimeout, t0 \in StartTimes :
         w = WaitCall(timeout, t0)

NextWait == W_LoopCheck \/ W_Poll \/ W_Sleep

SpecWait == InitWait /\ [][NextWait]_vars

\* one validate_vm invocation
InitValidate ==
    /\ Quiet
    /\ w = WIdle
    /\ task = NoTask
    /\ \E osType \in OsTypes, timeoutArg \in TimeoutArgs :
         val = [r \in ValRuns |->
                  IF r = 1 THEN ValidateCall(VmidOf(r), osType, timeoutArg)
                           ELSE ValIdle]

NextValidate ==
    \E r \in ValRuns :
       \/ V_Liveness(r)
       \/ V_IpLoopCheck(r)
       \/ V_IpQuery(r)
       \/ V_IpSleep(r)
       \/ V_PortCheck(r)
       \/ V_Unexpected(r)

SpecValidate == InitValidate /\ [][NextValidate]_vars

\* two validate_vm invocations at once, each on its own VM and os type
\* (api/v1/vms.py 258-278: one coroutine per request); a coroutine runs
\* until it awaits, so the steps of the two interleave at step boundaries.
\* Every call answers at once and every run stops asking for the address
\* after MaxQueries queries.
ConcurrentRuns == {1, 2} \cap ValRuns
OsOf(r) == IF r = 1 THEN "linux" ELSE "windows"
InitConcurrent ==
    /\ Quiet
    /\ w = WIdle
    /\ task = NoTask
    /\ val = [r \in ValRuns |->
                IF r \in ConcurrentRuns
                   THEN ValidateCall(VmidOf(r), OsOf(r), 0)
                   ELSE ValIdle]
Prompt(r) ==
    val'[r].now - val[r].now \in {0, IpRetryInterval, PortTimeout}
NextConcurrent ==
    \E r \in ConcurrentRuns :
       \/ V_Liveness(r) /\ Prompt(r)
       \/ V_IpLoopCheck(r)
       \/ V_IpQuery(r) /\ Prompt(r) /\ val[r].queries < MaxQueries
       \/ V_IpSleep(r)
       \/ V_PortCheck(r) /\ Prompt(r)
       \/ V_Unexpected(r)

SpecConcurrent == InitConcurrent /\ [][NextConcurrent]_vars

\* the two wait loops under a scheduler that lets a running call go on: one
\* wait_for_task call or one validate_vm invocation (of a Linux guest, with
\* the default timeout: neither argument reaches a loop), every step of which is
\* eventually taken (the calls block on nothing but their own sleeps and
\* remote calls, which return)
InitLoops ==
    \/ InitWait
    \/ InitValidate /\ val[1].osType = "linux" /\ val[1].timeoutArg = 0
NextLoops == NextWait \/ NextValidate
SpecLoops == InitLoops /\ [][NextLoops]_vars /\ WF_vars(NextLoops)

\* one create payload parsed and handed to validate_vm_config
InitConfig ==
    /\ w = WIdle
    /\ task = NoTask
    /\ val = [r \in ValRuns |-> ValIdle]
    /\ orch = OrchIdle
    /\ cp = [used |-> {}]
    /\ audit = << >>
    /\ batch = BatchIdle
    /\ px = PxIdle
    /\ peer = OrchIdle
    /\ \E p \in Payloads : cfg = CfgPayload(p)

NextConfig ==
    \/ C_Parse
    \/ C_Validate
    \/ C_Dispatch
    \/ O_NextId
    \/ O_Submit
    \/ O_Await
    \/ C_Return

SpecConfig == InitConfig /\ [][NextConfig]_vars

\* one ProxmoxService instance serving operations one after the other
InitClient ==
    /\ w = WIdle
    /\ task = NoTask
    /\ val = [r \in ValRuns |-> ValIdle]
    /\ orch = OrchIdle
    /\ cp = [used |-> {}]
    /\ audit = << >>
    /\ batch = BatchIdle
    /\ cfg = CfgIdle
    /\ px = PxIdle
    /\ peer = OrchIdle

NextClient ==
    \/ P_Call
    \/ P_Probe
    \/ P_Connect
    \/ P_Request
    \/ P_Expire
    \/ P_Outage
    \/ P_Restore

SpecClient == InitClient /\ [][NextClient]_vars

\* the requests one orchestration is started on: no id, an id the code reads
\* as absent, ids around both ends of the configured range
CloneVmids == {0, 0 - 1, VmidMin - 1, VmidMin, VmidMax, VmidMax + 1}
CreateVmids == {VmidMin - 1, VmidMin, VmidMax, VmidMax + 1}
RequestNodes == {NoNode, "pve2"}
OrchCloneRequests ==
    {Request("clone", "srv-01", has, IF has THEN id ELSE 0, node, cores, 0,
             0, "", FALSE, ci, start) :
        has \in BOOLEAN, id \in CloneVmids, node \in RequestNodes,
        cores \in {0, 4}, ci \in BOOLEAN, start \in BOOLEAN}
OrchCreateRequests ==
    {Request("create", "srv-01", has, IF has THEN id ELSE 0, node, 2, 2048,
             20, "linux", FALSE, FALSE, start) :
        has \in BOOLEAN, id \in CreateVmids, node \in RequestNodes,
        start \in BOOLEAN}
OrchRequests == OrchCloneRequests \cup OrchCreateRequests
\* the ids in use on the cluster when the request arrives
UsedAtStart == {{}, {VmidMin}}

\* one clone_from_template or create_vm call
InitOrch ==
    /\ w = WIdle
    /\ task = NoTask
    /\ val = [r \in ValRuns |-> ValIdle]
    /\ audit = << >>
    /\ batch = BatchIdle
    /\ cfg = CfgIdle
    /\ px = PxIdle
    /\ peer = OrchIdle
    /\ \E used \in UsedAtStart : cp = [used |-> used]
    /\ \E req \in OrchRequests, auto_start \in BOOLEAN :
         orch = OrchRequested(req, auto_start)

NextOrch ==
    \/ O_Enter
    \/ O_Find
    \/ O_Config
    \/ O_NextId
    \/ O_Submit
    \/ O_Await
    \/ O_Customize
    \/ O_CloudInit
    \/ O_Start

SpecOrch == InitOrch /\ [][NextOrch]_vars

\* one call of a batch endpoint on a list of requests
InitBatch ==
    /\ w = WIdle
    /\ task = NoTask
    /\ val = [r \in ValRuns |-> ValIdle]
    /\ orch = OrchIdle
    /\ cp = [used |-> {}]
    /\ audit = << >>
    /\ cfg = CfgIdle
    /\ px = PxIdle
    /\ peer = OrchIdle
    /\ \E op \in BatchOps, auto_start \in BOOLEAN :
         \E requests \in RequestLists(op) :
            batch = BatchCall(op, requests, auto_start)

NextBatch ==
    \/ B_Item
    \/ O_Find
    \/ O_Config
    \/ O_NextId
    \/ O_Submit
    \/ O_Await
    \/ O_Customize
    \/ O_CloudInit
    \/ O_Start
    \/ B_Collect
    \/ B_Respond

SpecBatch == InitBatch /\ [][NextBatch]_vars

\* two requests that arrive together: with an id to allocate or with the
\* same explicit id, on either orchestrator
RaceRequests(name) ==
    {Request("clone", name, FALSE, 0, NoNode, 0, 0, 0, "", FALSE, FALSE, TRUE),
     Request("clone", name, TRUE, VmidMin, NoNode, 0, 0, 0, "", FALSE, FALSE,
             FALSE),
     Request("create", name, FALSE, 0, NoNode, 2, 2048, 20, "linux", FALSE,
             FALSE, FALSE),
     Request("create", name, TRUE, VmidMin, NoNode, 2, 2048, 20, "linux",
             FALSE, FALSE, TRUE)}

\* two clone_from_template / create_vm calls in flight on one control plane
InitRace ==
    /\ w = WIdle
    /\ task = NoTask
    /\ val = [r \in ValRuns |-> ValIdle]
    /\ audit = << >>
    /\ batch = BatchIdle
    /\ cfg = CfgIdle
    /\ px = PxIdle
    /\ cp = [used |-> {}]
    /\ \E first \in RaceRequests("web-01"), second \in RaceRequests("web-02") :
         /\ orch = OrchRequested(first, TRUE)
         /\ peer = OrchRequested(second, TRUE)

\* the running call is suspended at a control-plane call and the other one
\* goes on
O_Switch ==
    /\ orch.pc # "idle"
    /\ peer.pc \notin {"idle", "done"}
    /\ orch' = peer
    /\ peer' = orch
    /\ UNCHANGED <<w, task, val, cp, audit, batch, cfg, px>>

\* the runs of one batch one after the other, or two runs interleaved
InitIds == InitBatch \/ InitRace
NextIds == NextBatch \/ O_Enter \/ O_Switch
SpecIds == InitIds /\ [][NextIds]_vars

----------------------------------------------------------------------------
(* Provisioning Orchestrator: derived quantities *)

OrchDone == orch.pc = "done"
OrchRaised == OrchDone /\ orch.outcome = "raised"
OrchReturned == OrchDone /\ orch.outcome = "returned"
\* the names of the control-plane calls the orchestration made
CallNames == {orch.calls[i].call : i \in DOMAIN orch.calls}
Called(name) == name \in CallNames
\* the calls that submit a clone or a create
SubmitCalls == {"clone_vm", "create_vm"}
\* the calls that only read the source of a clone
ResolveCalls == {"find_vm_node", "get_vm_config"}
\* the request names an id the code does not read as absent
ExplicitId == orch.req.has_vmid /\ orch.req.vmid # 0
\* min-1 and max+1
JustOutside == {VmidMin - 1, VmidMax + 1}

(* C13, as stated: for create_vm and for clone_from_template, a request
   carrying an explicit id equal to min-1 or max+1 always fails with
   InvalidVMIDError, and no call to the control plane has been made before
   that error is raised. *)
C13_OutOfRangeFailsBeforeAnyCall ==
    (OrchDone /\ orch.req.has_vmid /\ orch.req.vmid \in JustOutside)
    => /\ orch.outcome = "raised"
       /\ orch.error.class = "InvalidVMIDError"
       /\ orch.calls = << >>

(* C13, amended: a request carrying an explicit id equal to min-1 or max+1
   always fails and nothing is allocated or submitted.  create_vm fails with
   InvalidVMIDError before any control-plane call.  clone_from_template
   first resolves the source (find_vm_node, then get_vm_config): it fails
   with InvalidVMIDError once the source is resolved as a template, these
   two reads being the only calls made, and with the error of the
   resolution when that fails. *)
C13_OutOfRangeFailsBeforeSubmit ==
    (OrchDone /\ orch.req.has_vmid /\ orch.req.vmid \in JustOutside)
    => /\ orch.outcome = "raised"
       /\ CallNames \subseteq ResolveCalls
       /\ orch.op = "create"
            => /\ orch.error.class = "InvalidVMIDError"
               /\ orch.calls = << >>
       /\ orch.op = "clone"
            => /\ orch.node # NoNode
                 => /\ orch.error.class = "InvalidVMIDError"
                    /\ Len(orch.calls) = 2
               /\ orch.node = NoNode
                 => orch.error.class
                       \in {"TemplateNotFoundError", "VMCloneError"}

C13_Witness ==
    /\ OrchDone /\ orch.op = "clone"
    /\ orch.req.has_vmid /\ orch.req.vmid = VmidMin - 1
    /\ orch.error.class = "InvalidVMIDError"
    /\ Len(orch.calls) = 2

\* the ids of the clones and creates submitted to the control plane
SubmittedIds ==
    {orch.calls[i].vmid :
        i \in {j \in DOMAIN orch.calls : orch.calls[j].call \in SubmitCalls}}

(* C14: every clone or create submitted to the control plane carries an id
   inside the configured inclusive range [vmid_min, vmid_max], whether the
   id came from the request or from get_next_vmid; an id obtained from
   get_next_vmid that lies outside the range fails with InvalidVMIDError
   and nothing is submitted. *)
C14_SubmittedIdsInRange ==
    /\ \A id \in SubmittedIds :
          /\ VmidMin <= id /\ id <= VmidMax
          /\ id = orch.vmid
          /\ ExplicitId => id = orch.req.vmid
          /\ ~ExplicitId => Called("get_next_vmid")
    /\ \A id \in cp.used : VmidMin <= id /\ id <= VmidMax
    /\ (Called("get_next_vmid") /\ orch.vmid \in NextIdReplies
          /\ (orch.vmid < VmidMin \/ orch.vmid > VmidMax))
         => /\ OrchRaised
            /\ orch.error.class = "InvalidVMIDError"
            /\ SubmittedIds = {}

C14_Witness ==
    /\ OrchReturned
    /\ ~orch.req.has_vmid
    /\ Called("get_next_vmid")
    /\ SubmittedIds = {VmidMin + 1}
    /\ orch.response.vmid = VmidMin + 1

\* the reply the control plane gave to the first call of that name
ReplyTo(name) ==
    orch.replies[CHOOSE i \in DOMAIN orch.calls : orch.calls[i].call = name]
\* the source id was found on no node / the resolved VM is not a template
SourceAbsent == Called("find_vm_node") /\ ReplyTo("find_vm_node") = NoNode
SourceNotTemplate ==
    Called("get_vm_config") /\ ReplyTo("get_vm_config") = "not_template"

(* C15: clone_from_template fails with TemplateNotFoundError when the source
   id is found on no cluster node, and also when the resolved VM is not
   flagged as a template; in both cases no id is allocated and no clone is
   submitted. *)
C15_UnresolvedSourceIsTemplateNotFound ==
    /\ SourceAbsent => orch.calls = <<Call("find_vm_node", NoNode,
                                           orch.req.source_vmid)>>
    /\ SourceNotTemplate => CallNames = ResolveCalls
    /\ (SourceAbsent \/ SourceNotTemplate)
         => /\ OrchRaised
            /\ orch.error.class = "TemplateNotFoundError"
            /\ orch.logged.status = "failed"
            /\ ~Called("get_next_vmid")
            /\ SubmittedIds = {}
            /\ orch.vmid = 0
            /\ orch.task_id = NoTaskId
            /\ cp.used \in UsedAtStart

C15_Witness ==
    /\ OrchRaised
    /\ SourceNotTemplate
    /\ ~orch.req.has_vmid
    /\ orch.error = Error("TemplateNotFoundError", <<"VM is not a template">>)

\* the calls that follow a successful wait
PostWaitCalls == {"update_vm_config", "apply_cloudinit", "start_vm"}
\* the wait for the submitted task returned a non-success value
WaitUnsuccessful ==
    Called("wait_for_task") /\ ReplyTo("wait_for_task") = "no_success"

(* C16: if wait_for_task returns a non-success value for the submitted clone
   or create task, the orchestration fails with VMCloneError /
   VMCreationError and stops: the wait is its last control-plane call, no
   customization, no cloud-init and no start call is issued. *)
C16_UnsuccessfulWaitStopsOrchestration ==
    WaitUnsuccessful
    => /\ OrchRaised
       /\ orch.error.class
            = (IF orch.op = "clone" THEN "VMCloneError" ELSE "VMCreationError")
       /\ orch.calls[Len(orch.calls)].call = "wait_for_task"
       /\ CallNames \cap PostWaitCalls = {}
       /\ orch.response = NoResponse

C16_Witness ==
    /\ OrchRaised
    /\ WaitUnsuccessful
    /\ orch.op = "clone"
    /\ ~orch.tk.finishes
    /\ WantsCustomization(orch.req) /\ orch.req.cloudinit
    /\ orch.req.start /\ orch.auto_start

\* the start call was issued and failed
StartFailure == Called("start_vm") /\ ReplyTo("start_vm") # "ok"

(* C17: when a start was requested and enabled but the start call fails,
   the orchestration still returns a response (it does not raise): the
   status is "created", not "started" and not "failed", and the message
   says the VM failed to start. *)
C17_StartFailureDegradesToCreated ==
    StartFailure
    => /\ orch.req.start /\ orch.auto_start
       /\ OrchReturned
       /\ orch.error = NoError
       /\ orch.response.status = "created"
       /\ orch.response.message[1]
            \in {"cloned successfully but failed to start",
                 "created but failed to start"}
       /\ Len(orch.response.message) > 1
       /\ orch.response.vmid = orch.vmid
       /\ orch.logged.status = "success"

C17_Witness ==
    /\ OrchReturned
    /\ StartFailure
    /\ orch.op = "create"
    /\ ReplyTo("start_vm") = "unreachable"
    /\ orch.response.status = "created"

\* the start call was issued and succeeded
StartSucceeded == Called("start_vm") /\ ReplyTo("start_vm") = "ok"

(* C18: a returned response has status "started" exactly when a start was
   requested, enable_auto_start is set and the start call succeeded; in
   every other successful run the status is "created", and no start call
   is issued unless requested and enabled.  A clone with start requested
   whose task and start call succeed yields status "started" with a message
   containing "cloned and started". *)
C18_StartedIffRequestedEnabledSucceeded ==
    /\ Called("start_vm") => (orch.req.start /\ orch.auto_start)
    /\ OrchReturned
         => /\ orch.response.status \in {"started", "created"}
            /\ orch.response.status = "started"
                 <=> (orch.req.start /\ orch.auto_start /\ StartSucceeded)
            /\ (orch.req.start /\ orch.auto_start) => Called("start_vm")
            /\ (orch.op = "clone" /\ orch.req.start /\ orch.auto_start
                  /\ StartSucceeded)
                 => orch.response.message
                       = <<"cloned and started successfully">>

C18_Witness ==
    /\ OrchReturned
    /\ orch.op = "clone"
    /\ orch.req.start /\ orch.auto_start
    /\ StartSucceeded
    /\ orch.response.status = "started"
    /\ orch.response.message = <<"cloned and started successfully">>

\* the id the audit record of a failed call carries: the request's, 0 for none
RequestedId == IF VmidAbsent(orch.req) THEN 0 ELSE orch.req.vmid
\* the error text of the failed record: the raised error's own text, or, for
\* an error the orchestrator wrapped, the inner text behind "Unexpected error"
FailureText(entry) ==
    \/ entry.error = orch.error.msg
    \/ /\ entry.error[1] = "Unexpected error"
       /\ orch.error.class = WrapClass(orch.op)
       /\ Tail(entry.error) = Tail(orch.error.msg)

\* C19: every invocation of create_vm or clone_from_template emits exactly one
\* audit record: none while the call is running, exactly one once it has
\* returned or raised (so the record is there by the time the caller sees the
\* outcome); the record names the request, and carries the response on
\* success (status "success", the response's id, node and task) or the error
\* on failure (status "failed", the error text).
C19_OneAuditRecordPerInvocation ==
    /\ ~OrchDone => audit = << >>
    /\ OrchDone =>
         /\ Len(audit) = 1
         /\ audit[1].operation = AuditOperation(orch.op)
         /\ audit[1].vm_name = orch.req.name
    /\ OrchReturned =>
         /\ audit[1].status = "success"
         /\ audit[1].error = NoMessage
         /\ audit[1].vm_id = orch.response.vmid
         /\ audit[1].node = orch.response.node
         /\ audit[1].task_id = orch.response.task_id
    /\ OrchRaised =>
         /\ audit[1].status = "failed"
         /\ audit[1].error # NoMessage
         /\ FailureText(audit[1])
         /\ audit[1].vm_id = RequestedId
         /\ audit[1].node = orch.req.node
C19_Witness ==
    /\ OrchRaised
    /\ Len(audit) = 1
    /\ audit[1].status = "failed"
    /\ audit[1].error[1] = "Unexpected error"
    /\ Called("start_vm") = FALSE
    /\ Called("get_next_vmid")

\* the last control-plane call of the orchestration found the control plane
\* unreachable
LastReply == orch.replies[Len(orch.replies)]
LastCall == orch.calls[Len(orch.calls)].call
Unreachable ==
    /\ orch.calls # << >>
    /\ LastCall \in {"get_next_vmid", "get_vm_config"}
    /\ LastReply = "unreachable"

(* C21: when get_next_vmid or get_vm_config finds the control plane
   unreachable, the exception that leaves create_vm / clone_from_template is
   a ProxmoxConnectionError, which the endpoint answers with 503, and not a
   VMCreationError / VMCloneError.  The orchestrators' generic except clause
   wraps the connection error, so this does not hold. *)
C21_UnreachableSurfacesConnectionError ==
    (OrchRaised /\ Unreachable) =>
        /\ orch.error.class = "ProxmoxConnectionError"
        /\ StatusCode(orch.op, orch.error.class) = 503

\* the customization or the cloud-init step of a clone failed
StepFailure ==
    /\ orch.calls # << >>
    /\ LastCall \in {"update_vm_config", "apply_cloudinit"}
    /\ LastReply # "ok"
\* the texts a failed customization or cloud-init step starts its error with
StepFailureTexts == {CustomizationFailure, CloudInitFailure}

(* C22: in clone_from_template a failure of update_vm_config or of the
   cloud-init step, which can only happen after the wait for the clone task
   returned success, is raised to the caller as a VMCloneError whose text
   starts with "VM cloned but ...", and the error raised for an unsuccessful
   wait never carries such a text: the two failures differ in their text
   (they share the class VMCloneError). *)
C22_StepFailureDiffersFromWaitFailure ==
    /\ StepFailure =>
         /\ OrchRaised
         /\ orch.op = "clone"
         /\ ReplyTo("wait_for_task") = "success"
         /\ orch.error.class = "VMCloneError"
         /\ orch.error.msg[1] \in StepFailureTexts
         /\ orch.error.msg[1] # WaitFailure(orch.op)
         /\ audit[Len(audit)].error = orch.error.msg
    /\ (OrchRaised /\ WaitUnsuccessful) =>
         /\ orch.error.msg = <<WaitFailure(orch.op)>>
         /\ orch.error.msg[1] \notin StepFailureTexts
C22_Witness ==
    /\ StepFailure
    /\ OrchRaised
    /\ LastCall = "apply_cloudinit"
    /\ Called("update_vm_config")
    /\ orch.error.msg[1] = CloudInitFailure

\* the calls of the Proxmox client that stop or remove a VM
\* (proxmox_service.py 224-257)
RetractingCalls == {"stop_vm", "delete_vm"}
\* the ids of the submissions of this orchestration the control plane accepted
AcceptedIds ==
    {orch.calls[i].vmid :
        i \in {j \in DOMAIN orch.calls : /\ orch.calls[j].call \in SubmitCalls
                                         /\ orch.replies[j] = "accepted"}}
\* the orchestration failed, or degraded, after its submission was accepted
FailedAfterSubmit ==
    /\ OrchDone
    /\ AcceptedIds # {}
    /\ WaitUnsuccessful \/ StepFailure \/ StartFailure

(* C23: no orchestration, alone or as an item of a batch, issues a stop or a
   delete call, and no step of the program removes an id from the control
   plane: whatever an accepted submission created is still there after a
   failed or timed-out wait, a failed customization, a failed cloud-init
   step or a failed start, and at every later step of the batch. *)
C23_NothingRetracted ==
    [][/\ cp.used \subseteq cp'.used
       /\ CallNames' \cap RetractingCalls = {}
       /\ AcceptedIds' \subseteq cp'.used]_vars
C23_Witness ==
    /\ FailedAfterSubmit
    /\ StepFailure
    /\ batch.pc = "item"
    /\ batch.i = 2
    /\ orch.vmid \in cp.used
    /\ Cardinality(cp.used) = 2

\* the place of each control-plane call in the order of an orchestration:
\* resolve (node, then configuration), allocate, submit, await, customize,
\* guest-init, start
CallRank(name) ==
    CASE name = "find_vm_node" -> 1
      [] name = "get_vm_config" -> 2
      [] name = "get_next_vmid" -> 3
      [] name \in SubmitCalls -> 4
      [] name = "wait_for_task" -> 5
      [] name = "update_vm_config" -> 6
      [] name = "apply_cloudinit" -> 7
      [] name = "start_vm" -> 8
      [] OTHER -> 0
CallSequence == [i \in DOMAIN orch.calls |-> orch.calls[i].call]
FullCloneSequence ==
    <<"find_vm_node", "get_vm_config", "get_next_vmid", "clone_vm",
      "wait_for_task", "update_vm_config", "apply_cloudinit", "start_vm">>

(* C29: the control-plane calls of one orchestration occur in the fixed
   order resolve, allocate, submit, await, customize, guest-init, start, each
   at most once (the ranks of the calls made are strictly increasing, so no
   call is repeated and none comes before an earlier step's call); the audit
   record is written only by the step that ends the orchestration, after
   which no call is made; customization, guest-init and start are issued
   only after a wait that returned success, and the wait only after an
   accepted submission. *)
C29_FixedOrderNoRetry ==
    /\ \A i \in DOMAIN orch.calls : CallRank(orch.calls[i].call) > 0
    /\ \A i, j \in DOMAIN orch.calls :
          i < j => CallRank(orch.calls[i].call) < CallRank(orch.calls[j].call)
    /\ audit # << >> => OrchDone
    /\ (CallNames \cap PostWaitCalls # {}) =>
          Called("wait_for_task") /\ ReplyTo("wait_for_task") = "success"
    /\ Called("wait_for_task") => AcceptedIds # {}
C29_Witness ==
    /\ OrchReturned
    /\ CallSequence = FullCloneSequence
    /\ Len(audit) = 1
    /\ orch.response.status = "started"

\* the control plane refused the submission because the id is in use
IdInUse ==
    /\ orch.calls # << >>
    /\ LastCall \in SubmitCalls
    /\ LastReply = "exists"

(* C30: when clone_vm / create_vm is refused because the id already exists,
   the orchestration raises InvalidVMIDError, which the endpoint answers
   with 400; the refused submission is its last control-plane call (no wait,
   no customization, no cloud-init, no start); exactly one audit record, a
   failed one carrying the error's text, is written; and the VM that holds
   the id is left as it is. *)
C30_IdInUseIsInvalidIdentifier ==
    IdInUse =>
       /\ OrchRaised
       /\ orch.error.class = "InvalidVMIDError"
       /\ StatusCode(orch.op, orch.error.class) = 400
       /\ ~Called("wait_for_task")
       /\ CallNames \cap PostWaitCalls = {}
       /\ Len(audit) = 1
       /\ audit[1].status = "failed"
       /\ audit[1].error = orch.error.msg
       /\ audit[1].vm_name = orch.req.name
       /\ orch.vmid \in cp.used
C30_Witness ==
    /\ IdInUse
    /\ OrchRaised
    /\ orch.op = "clone"
    /\ orch.vmid = VmidMin
    /\ orch.req.start /\ orch.auto_start /\ orch.req.cloudinit
    /\ audit[1].error = <<"VM ID already exists">>

\* the nodes the clone was submitted to and waited for on
CloneNodes ==
    {orch.calls[i].node : i \in {j \in DOMAIN orch.calls :
                                  orch.calls[j].call \in {"clone_vm", "wait_for_task"}}}
\* the nodes the steps after the wait were addressed to
LaterNodes ==
    {orch.calls[i].node : i \in {j \in DOMAIN orch.calls :
                                  orch.calls[j].call \in {"update_vm_config", "apply_cloudinit", "start_vm"}}}

(* C34: in clone_from_template the customization, cloud-init and start calls
   and the node of the returned response all name the node the clone was
   submitted to and waited for on, also when the request names a target
   node other than the node holding the template. *)
C34_LaterStepsOnCloneNode ==
    orch.op = "clone" =>
       /\ LaterNodes \subseteq CloneNodes
       /\ (orch.pc = "done" /\ orch.outcome = "returned")
             => orch.response.node \in CloneNodes

(* C35: an id the caller supplied is never replaced by an allocated one:
   get_next_vmid is called only for a request without id, and the id that is
   range-checked and submitted is the supplied one, for every integer the
   request schema admits (0 and negative ids included for a clone). *)
C35_ExplicitIdKept ==
    /\ Called("get_next_vmid") => ~orch.req.has_vmid
    /\ orch.req.has_vmid =>
          /\ \A id \in SubmittedIds : id = orch.req.vmid
          /\ orch.pc \in {"submit", "await"} => orch.vmid = orch.req.vmid
          /\ (OrchRaised /\ orch.error.class = "InvalidVMIDError"
                /\ ~Called(SubmitCall(orch.op)))
                => orch.vmid = orch.req.vmid

----------------------------------------------------------------------------
(* Batch Executor: derived quantities *)

BatchDone == batch.pc = "done"
BatchSize == Len(batch.requests)
\* the orchestration of item i raised, or its configuration was refused
ItemErred(i) == batch.trace[i].outcome \in {"raised", "invalid"}

(* C1: for every list of N requests, N = 0 and lists where every item fails
   included, the batch returns exactly N results, result i belonging to
   request i (the orchestrator's response for it, or a failed result that
   bears its name), and successful + failed = total = N. *)
C1_OneResultPerRequest ==
    /\ batch.pc = "loop"
         => /\ Len(batch.results) = batch.i - 1
            /\ batch.successful + batch.failed = batch.i - 1
    /\ BatchDone
         => LET res == batch.response
            IN  /\ batch.outcome = "returned"
                /\ Len(res.results) = BatchSize
                /\ res.total = BatchSize
                /\ res.successful + res.failed = res.total
                /\ \A i \in 1 .. BatchSize :
                      /\ res.results[i].name = batch.requests[i].name
                      /\ IF batch.trace[i].outcome = "returned"
                            THEN res.results[i] = batch.trace[i].response
                            ELSE res.results[i].status = "failed"

C1_Witness ==
    /\ BatchDone
    /\ BatchSize = 2
    /\ batch.requests[1].name # batch.requests[2].name
    /\ batch.response.results[1].status = "failed"
    /\ batch.response.results[2].status = "started"
    /\ batch.response.successful = 1
    /\ batch.response.failed = 1

(* C2: an error raised by the orchestration of item i (a refused
   configuration, a creation or clone error, a connection error, an
   unexpected error) does not abort the batch: it is captured as result i
   with status failed, id 0 and the error's message, and every later item
   is still run. *)
C2_ItemErrorsAreCaptured ==
    /\ batch.outcome # "raised"
    /\ \A i \in 1 .. Len(batch.trace) :
          ItemErred(i)
          => /\ i <= Len(batch.results)
             /\ batch.results[i].status = "failed"
             /\ batch.results[i].vmid = 0
             /\ batch.results[i].name = batch.requests[i].name
             /\ Len(batch.results[i].message) >= 2
             /\ batch.trace[i].outcome = "raised"
                  => batch.results[i].message
                        = <<"Failed">> \o batch.trace[i].error.msg
    /\ BatchDone
         => /\ Len(batch.trace) = BatchSize
            /\ \A i \in 1 .. BatchSize :
                  batch.trace[i].ran
                     \/ (batch.op = "create" /\ ~ConfigValid(batch.requests[i]))

C2_Witness ==
    /\ BatchDone
    /\ BatchSize = 2
    /\ batch.trace[1].outcome = "raised"
    /\ batch.trace[1].error.class = "VMCloneError"
    /\ batch.trace[1].error.msg[1] = "Failed to clone template"
    /\ batch.trace[2].ran
    /\ batch.trace[2].outcome = "returned"
    /\ batch.response.results[1].vmid = 0
    /\ batch.response.results[2].vmid = VmidMin

\* the positions of the aggregate records in the audit log
BatchOperations == {"batch_clone", "batch_create"}
BatchRecords == {k \in 1 .. Len(audit) : audit[k].operation \in BatchOperations}

\* C20: a batch emits exactly one aggregate audit record: none while items are
\* being processed, exactly one once the batch has returned, written after
\* every item's own record (it is the last record and every request has been
\* processed); its totals equal the response's total, successful and failed,
\* and its operations list has one entry per request, with the request's name
\* and the id, status and message of the result at the same position.
C20_OneAggregateRecordPerBatch ==
    /\ ~BatchDone => BatchRecords = {}
    /\ BatchDone =>
         /\ BatchRecords = {Len(audit)}
         /\ batch.i = Len(batch.requests) + 1
         /\ Len(batch.trace) = Len(batch.requests)
         /\ LET entry == audit[Len(audit)]
            IN  /\ entry.total = batch.response.total
                /\ entry.successful = batch.response.successful
                /\ entry.failed = batch.response.failed
                /\ Len(entry.operations) = Len(batch.requests)
                /\ \A i \in 1 .. Len(batch.requests) :
                      /\ entry.operations[i].vm_name = batch.requests[i].name
                      /\ entry.operations[i].vm_id =
                            batch.response.results[i].vmid
                      /\ entry.operations[i].status =
                            batch.response.results[i].status
                      /\ entry.operations[i].message =
                            batch.response.results[i].message
C20_Witness ==
    /\ BatchDone
    /\ Len(batch.requests) = 2
    /\ batch.response.successful = 1
    /\ batch.response.failed = 1
    /\ audit[Len(audit)].status = "partial"
    /\ Len(audit[Len(audit)].operations) = 2
    /\ Len(audit) > 1

\* the ids of the runs of the batch that succeeded so far, in order
SuccessfulIds ==
    LET ok == SelectSeq(batch.results, LAMBDA res : res.status # "failed")
    IN  [i \in 1 .. Len(ok) |-> ok[i].vmid]
\* run o asked the control plane for an id
AskedNextId(o) == \E i \in DOMAIN o.calls : o.calls[i].call = "get_next_vmid"
\* both interleaved runs have returned a response
BothReturned ==
    /\ orch.pc = "done" /\ orch.outcome = "returned"
    /\ peer.pc = "done" /\ peer.outcome = "returned"

(* C33: no two successful provisioning runs on one control plane end with
   the same VM id, neither two items of one batch nor two interleaved
   requests, when get_next_vmid answers with an unused id and the control
   plane refuses to clone or create onto an id in use. *)
C33_SuccessfulIdsDistinct ==
    /\ \A i, j \in 1 .. Len(SuccessfulIds) :
          i # j => SuccessfulIds[i] # SuccessfulIds[j]
    /\ BothReturned => orch.response.vmid # peer.response.vmid
    /\ BothReturned => {orch.response.vmid, peer.response.vmid} \subseteq cp.used
C33_Witness ==
    /\ BothReturned
    /\ VmidAbsent(orch.req) /\ VmidAbsent(peer.req)
    /\ AskedNextId(orch) /\ AskedNextId(peer)
    /\ orch.response.vmid = VmidMin + 1 /\ peer.response.vmid = VmidMin

\* how many results of the batch response bear one of the statuses
CountStatus(statuses) ==
    Cardinality({i \in DOMAIN batch.response.results :
                    batch.response.results[i].status \in statuses})

(* C37: in every batch response the counters agree with the statuses of the
   results: successful is the number of results with status "created" or
   "started", failed the number with status "failed", and a result has
   vmid 0 exactly when its status is "failed". *)
C37_CountersMatchStatuses ==
    BatchDone
       => /\ batch.response.successful = CountStatus({"created", "started"})
          /\ batch.response.failed = CountStatus({"failed"})
          /\ \A i \in DOMAIN batch.response.results :
                LET res == batch.response.results[i]
                IN  /\ res.status \in {"created", "started", "failed"}
                    /\ res.vmid = 0 <=> res.status = "failed"
C37_Witness ==
    /\ BatchDone
    /\ BatchSize = 2
    /\ batch.requests[2].has_vmid
    /\ batch.response.results[1].status = "created"
    /\ batch.response.results[1].vmid # 0
    /\ batch.response.results[2].status = "failed"
    /\ batch.response.results[2].vmid = 0
    /\ batch.response.successful = 1 /\ batch.response.failed = 1

----------------------------------------------------------------------------
(* Configuration validation: derived quantities *)

CfgValidated == cfg.pc = "validated"
\* the bounds of the configuration a request violates, by the text of the
\* issue that names them
ViolatedBounds(req) ==
    (IF req.cores \in 1 .. 256 THEN {}
                               ELSE {"cores must be between 1 and 256"})
    \cup (IF req.memory >= 512 THEN {} ELSE {"memory must be at least 512 MB"})
    \cup (IF req.disk_size >= 8 THEN {}
                                ELSE {"disk_size must be at least 8 GB"})
    \cup (IF req.os_type \in {"linux", "windows"}
             THEN {} ELSE {"os_type must be 'linux' or 'windows'"})
IssueSet == {cfg.issues[i] : i \in DOMAIN cfg.issues}

(* C26: validate_vm_config reports a request valid iff its cores are in
   [1, 256], its memory is at least 512, its disk size is at least 8 and its
   os type is linux or windows; for a request that violates a bound the
   result is invalid and the issue list names each violated bound, once, and
   nothing else. *)
C26_ConfigValidIffWithinBounds ==
    CfgValidated =>
       /\ cfg.valid <=> ViolatedBounds(cfg.req) = {}
       /\ IssueSet = ViolatedBounds(cfg.req)
       /\ Len(cfg.issues) = Cardinality(ViolatedBounds(cfg.req))
C26_Witness ==
    /\ CfgValidated
    /\ ~cfg.valid
    /\ cfg.req.memory = 511
    /\ cfg.req.disk_size = 7
    /\ cfg.req.os_type = "other"
    /\ Len(cfg.issues) = 3

\* the endpoint has answered a request whose configuration is invalid
RejectedConfiguration == cfg.pc = "responded" /\ ~cfg.valid

(* C36: for a request that fails validate_vm_config the create endpoint
   answers 400 with the list of issues and never calls create_vm: no
   control-plane call is made and no audit record is written. *)
C36_InvalidConfigurationIs400 ==
    RejectedConfiguration
       => /\ cfg.status = 400
          /\ cfg.detail = cfg.issues
          /\ ~cfg.invoked
          /\ orch.calls = << >>
          /\ audit = << >>

----------------------------------------------------------------------------
(* Validation Engine: derived quantities *)

VElapsed(r) == val[r].now - val[r].start
VDone(r) == val[r].pc = "done"
\* the address-wait loop of run r: the time since it started, whether it is
\* running, and whether only its sleeps advanced the clock
IpElapsed(r) == val[r].now - val[r].ipStart
IpWaiting(r) == val[r].pc \in {"ipcheck", "ipquery", "ipsleep"}
IpFakeClock(r) == IpElapsed(r) = val[r].queries * IpRetryInterval
LivenessFailed(r) == val[r].liveness \notin {"none", "passed"}
\* the names of the checks of a check map, in insertion order
CheckNames(checks) == [i \in DOMAIN checks |-> checks[i].name]
HasCheck(checks, name) == \E i \in DOMAIN checks : checks[i].name = name
PortCheckNames == {"ssh_port", "rdp_port"}
OverallStatuses == {"healthy", "degraded", "unhealthy"}

(* C3: if the liveness check of validate fails (node not resolved, or the
   remote status is not "running"), no address-wait query and no port probe
   is performed and the overall status of the returned result is unhealthy.
   Stated on the returned result of a run in which no exception escaped. *)
C3_LivenessFailureShortCircuits ==
    \A r \in ValRuns :
       (VDone(r) /\ LivenessFailed(r) /\ ~val[r].escaped)
       => /\ val[r].queries = 0
          /\ val[r].probes = << >>
          /\ val[r].result.status = "unhealthy"

(* C4: when the address-wait loop exhausts its sub-timeout without an
   address, the returned result is degraded, its address is null, it holds no
   port check and no TCP probe was attempted. *)
C4_ExhaustedAddressWaitIsDegraded ==
    \A r \in ValRuns :
       (VDone(r) /\ val[r].exhausted)
       => /\ val[r].outcome = "returned"
          /\ val[r].now - val[r].ipStart >= IpWaitTimeout
          /\ val[r].result.status = "degraded"
          /\ val[r].result.ip = NoIp
          /\ \A n \in PortCheckNames : ~HasCheck(val[r].result.checks, n)
          /\ val[r].probes = << >>

C4_Witness ==
    \E r \in ValRuns :
       /\ VDone(r) /\ val[r].exhausted
       /\ val[r].liveness = "passed"
       /\ val[r].queries >= 2 /\ val[r].ifaceAsked

(* C5: validate honours its overall timeout: whatever the control plane
   does, a run ends in a non-success result no later than the overall
   timeout the caller supplied.  Stated for a VM that never reports an
   address. *)
C5_HonoursOverallTimeout ==
    \A r \in ValRuns :
       (VDone(r) /\ val[r].ip = NoIp /\ ~val[r].escaped)
       => VElapsed(r) <= val[r].timeout

(* C6: when validate reaches the aggregate step, the overall status is
   healthy iff every recorded check with required = true passed, and degraded
   otherwise; a running VM with an address and an open port is healthy, the
   same VM with the port refused is degraded. *)
C6_HealthyIffAllRequiredPassed ==
    \A r \in ValRuns :
       (VDone(r) /\ val[r].aggregated)
       => LET res == val[r].result
              probe == val[r].probes[Len(val[r].probes)]
          IN  /\ res.status \in {"healthy", "degraded"}
              /\ res.status = "healthy"
                   <=> (\A i \in DOMAIN res.checks :
                           res.checks[i].required => res.checks[i].passed)
              /\ res.ip = val[r].ip /\ res.ip # NoIp
              /\ (val[r].liveness = "passed" /\ probe.outcome = "open")
                   => res.status = "healthy"
              /\ (val[r].liveness = "passed" /\ probe.outcome = "refused")
                   => res.status = "degraded"

C6_Witness ==
    \E r \in ValRuns :
       /\ VDone(r) /\ val[r].aggregated
       /\ val[r].liveness = "passed"
       /\ val[r].probes[1].outcome = "refused"
       /\ val[r].result.status = "degraded"
       /\ val[r].result.ip = IpGuest

(* C7: validate never raises: at every failure of the control plane or of
   the port prober it returns a ValidationResult whose status is healthy,
   degraded or unhealthy; an exception that escapes a step is recorded as a
   failing check named "error" and the result is unhealthy with a null
   address. *)
C7_ValidateAlwaysReturns ==
    \A r \in ValRuns :
       /\ val[r].outcome # "raised"
       /\ VDone(r)
          => LET res == val[r].result
             IN  /\ val[r].outcome = "returned"
                 /\ res.vmid = val[r].vmid
                 /\ res.status \in OverallStatuses
                 /\ val[r].escaped
                      => /\ res.status = "unhealthy"
                         /\ res.ip = NoIp
                         /\ \E i \in DOMAIN res.checks :
                               /\ res.checks[i].name = "error"
                               /\ ~res.checks[i].passed

C7_Witness ==
    \E r \in ValRuns :
       /\ VDone(r) /\ val[r].escaped
       /\ val[r].liveness = "status_error"
       /\ val[r].queries >= 1
       /\ val[r].result.status = "unhealthy"

\* the check a result holds under a name
RECURSIVE CheckNamed(_, _)
CheckNamed(checks, name) ==
    IF Head(checks).name = name THEN Head(checks)
                                ELSE CheckNamed(Tail(checks), name)
\* the outcomes of a connect attempt that are failure classes of their own
FailureClasses == {"timeout", "refused", "dns"}

(* C24: validate connects at most once, and only to the address the
   address-wait found; a run that got an address and went on to the probe
   made exactly one connect attempt, to port 22 for os type linux and to
   port 3389 for os type windows, and its result holds the outcome as a
   required check named ssh_port / rdp_port that passed iff the port was
   open and that tells a timeout, a refusal and a DNS failure apart. *)
C24_OnePortProbe ==
    \A r \in ValRuns :
       LET v == val[r]
       IN  /\ Len(v.probes) <= 1
           /\ v.probes # << >> => v.ip # NoIp /\ v.probes[1].ip = v.ip
           /\ (VDone(r) /\ v.aggregated) =>
                /\ Len(v.probes) = 1
                /\ v.osType = "linux" => v.probes[1].port = 22
                /\ v.osType = "windows" => v.probes[1].port = 3389
                /\ HasCheck(v.result.checks, PortCheckName(v.osType))
                /\ LET c == CheckNamed(v.result.checks,
                                       PortCheckName(v.osType))
                   IN  /\ c.required
                       /\ c.passed <=> v.probes[1].outcome = "open"
                       /\ v.probes[1].outcome \in FailureClasses
                             => c.kind = v.probes[1].outcome
C24_Witness ==
    \E r \in ValRuns :
       /\ VDone(r) /\ val[r].aggregated
       /\ val[r].osType = "windows"
       /\ val[r].probes = <<[ip |-> IpGuest, port |-> 3389, outcome |-> "dns"]>>
       /\ HasCheck(val[r].result.checks, "rdp_port")
       /\ ~CheckNamed(val[r].result.checks, "rdp_port").passed

\* the steps of validate_vm a run executed, in execution order: the liveness
\* check, the address-wait (it ran once it asked for the address or gave up)
\* and the port probe
StepsExecuted(r) ==
    (IF val[r].liveness # "none" THEN <<"liveness">> ELSE << >>)
    \o (IF val[r].queries > 0 \/ val[r].exhausted THEN <<"address_wait">>
                                                    ELSE << >>)
    \o (IF val[r].probes # << >> THEN <<"port_probe">> ELSE << >>)
\* the step a check name stands for
StepOf(name) ==
    IF name = "proxmox_status" THEN "liveness"
    ELSE IF name \in PortCheckNames THEN "port_probe"
    ELSE IF name = "error" THEN "error"
    ELSE "address_wait"

(* C25: every step of validate that executed (liveness check, address-wait,
   port probe) has its outcome recorded as a named check of the result, and
   the checks are in the order the steps executed.  validate_vm records no
   check for the address-wait, so this does not hold. *)
C25_EveryStepRecordedInOrder ==
    \A r \in ValRuns :
       (VDone(r) /\ ~val[r].escaped)
       => [i \in DOMAIN val[r].result.checks |->
              StepOf(val[r].result.checks[i].name)] = StepsExecuted(r)

\* the checks run r itself produced, as its own history tells: the liveness
\* check, the check of its own probe under the name its own os type gives,
\* and the "error" check when an exception escaped
OwnCheckNames(r) ==
    (IF val[r].liveness # "none" THEN {"proxmox_status"} ELSE {})
    \cup (IF val[r].probes # << >> THEN {PortCheckName(val[r].osType)} ELSE {})
    \cup (IF val[r].escaped THEN {"error"} ELSE {})
NamesOf(checks) == {checks[i].name : i \in DOMAIN checks}
\* this step is a step of run r
StepOfRun(r) == val'[r] # val[r]

(* C27: with two validate_vm invocations interleaved at their suspension
   points, every returned result is for the invocation's own vmid and holds
   exactly the checks its own run produced (by name, one each, the liveness
   check telling its own liveness outcome and the port check its own probe),
   and a step of one run leaves the other run, its check map included,
   untouched. *)
C27_RunsShareNoCheckMap ==
    [][\A r \in ConcurrentRuns :
          /\ StepOfRun(r) =>
                \A s \in ValRuns \ {r} : val'[s] = val[s]
          /\ (val'[r].pc = "done") =>
                LET v == val'[r]
                    names == {v.result.checks[i].name :
                                 i \in DOMAIN v.result.checks}
                IN  /\ v.result.vmid = VmidOf(r)
                    /\ v.result.checks = v.checks
                    /\ names = OwnCheckNames(r)'
                    /\ Len(v.result.checks) = Cardinality(names)
                    /\ v.probes # << >> =>
                          CheckNamed(v.result.checks,
                                     PortCheckName(OsOf(r))).kind
                             = v.probes[1].outcome
                    /\ v.liveness # "none" =>
                          (v.liveness = "passed"
                             <=> CheckNamed(v.result.checks,
                                            "proxmox_status").passed)]_vars
C27_Witness ==
    /\ \A r \in ConcurrentRuns : VDone(r) /\ val[r].aggregated
    /\ val[1].liveness = "passed" /\ val[2].liveness = "not_running"
    /\ val[1].probes[1].outcome = "refused"
    /\ val[2].probes[1].outcome = "open"
    /\ NamesOf(val[1].result.checks) = {"proxmox_status", "ssh_port"}
    /\ NamesOf(val[2].result.checks) = {"proxmox_status", "rdp_port"}

\* ceil(sub-timeout / interval): 12 for 120 s and 10 s
MaxAddressQueries ==
    (IpWaitTimeout + IpRetryInterval - 1) \div IpRetryInterval
\* the addresses an answer of the guest agent lists, interface by interface
RECURSIVE Flatten(_)
Flatten(ifaces) ==
    IF ifaces = << >> THEN << >>
    ELSE (IF Head(ifaces).hasAddrs THEN Head(ifaces).addrs ELSE << >>)
            \o Flatten(Tail(ifaces))
\* the non-loopback IPv4 addresses of an answer, in the order it lists them
RoutableOf(reply) ==
    IF reply.ok
       THEN SelectSeq(Flatten(reply.ifaces),
               LAMBDA a : /\ a.ip # NoIp
                          /\ a.type \in {"ipv4", "IPv4"}
                          /\ a.ip[1] # 127)
       ELSE << >>
\* the first non-loopback IPv4 address of each answer that has one
FirstAddresses ==
    {RoutableOf(reply)[1].ip :
        reply \in {a \in IfaceReplies : RoutableOf(a) # << >>}}

(* C31: the address-wait loop makes at most ceil(120 / 10) = 12 guest
   interface queries, the k-th no earlier than (k - 1) intervals after the
   loop started, and exactly 12 when only the sleeps advance the clock and
   no address comes.  A query that fails, finds no node or lists only
   loopback or non-IPv4 addresses counts as one query and is followed by one
   sleep of the interval and the next deadline test; the first query that
   lists a non-loopback IPv4 address ends the loop at once with the first
   such address of its answer. *)
C31_AddressWaitQueries ==
    /\ [](\A r \in ValRuns :
            /\ val[r].queries <= MaxAddressQueries
            /\ val[r].queries <= 12
            /\ val[r].queries > 0 =>
                  IpElapsed(r) >= (val[r].queries - 1) * IpRetryInterval
            /\ (val[r].exhausted /\ IpFakeClock(r)) =>
                  val[r].queries = MaxAddressQueries
            /\ val[r].ip # NoIp => val[r].ip \in FirstAddresses
            /\ val[r].ip # NoIp => val[r].ip = IpGuest)
    /\ [][\A r \in ValRuns :
            (val[r].pc = "ipquery" /\ val'[r] # val[r] /\ ~val'[r].escaped)
            => /\ val'[r].queries = val[r].queries + 1
               /\ \/ val'[r].pc = "port" /\ val'[r].ip # NoIp
                  \/ val'[r].pc = "ipsleep" /\ val'[r].ip = NoIp]_vars
    /\ [][\A r \in ValRuns :
            (val[r].pc = "ipsleep" /\ val'[r] # val[r] /\ ~val'[r].escaped)
            => /\ val'[r].pc = "ipcheck"
               /\ val'[r].now = val[r].now + IpRetryInterval
               /\ val'[r].queries = val[r].queries]_vars
C31_Witness ==
    /\ VDone(1)
    /\ val[1].queries = 12
    /\ val[1].ip = IpGuest
    /\ val[1].aggregated

----------------------------------------------------------------------------
(* Control-Plane Client: derived quantities *)

\* the operation in flight has returned or raised
ClientDone == px.pc = "done"
\* the operation found the cached connection dead
ProbeFailed == px.probed = "failed"
\* a dead cached connection is replaced before use: the request goes out on
\* a connection opened during this operation, which is the cached one now
ReopenedBeforeUse ==
    /\ (ProbeFailed /\ ClientDone) => px.reconnect # "none"
    /\ (ProbeFailed /\ px.issuedOn # 0) =>
          /\ px.reconnect = "ok"
          /\ px.issuedOn > px.before
          /\ px.issuedOn = px._proxmox
    /\ (px.probed = "ok" /\ px.issuedOn # 0) =>
          px.issuedOn = px._proxmox /\ px.issuedOn <= px.before
\* after a connection loss the operation returns what the control plane
\* answers on the new connection
HealsAfterLoss ==
    (ClientDone /\ ProbeFailed /\ px.reconnect = "ok" /\ px.reply = "ok")
       => px.outcome = "ok"

(* C32, as stated: before each operation a dead cached connection (version
   probe fails) is replaced by a new one on which the operation is issued,
   so an operation following a connection loss succeeds when the control
   plane is reachable again; the operation fails with ProxmoxConnectionError
   only if the reconnect itself failed. *)
C32_ConnectionErrorOnlyOnFailedReconnect ==
    /\ ReopenedBeforeUse
    /\ HealsAfterLoss
    /\ (ClientDone /\ px.outcome = "ProxmoxConnectionError")
          => px.reconnect = "failed"

(* C32, amended: before each operation a dead cached connection is replaced
   by a new one on which the operation is issued, so an operation following
   a connection loss returns the control plane's answer when the reconnect
   and the request succeed; the operation fails with ProxmoxConnectionError
   only if the reconnect failed or its own request failed. *)
C32_SelfHealingConnection ==
    /\ ReopenedBeforeUse
    /\ HealsAfterLoss
    /\ (ClientDone /\ px.outcome = "ProxmoxConnectionError")
          => \/ px.reconnect = "failed"
             \/ px.reply \in {"transport", "resource"}
C32_Witness ==
    /\ ClientDone /\ px.calls = 2 /\ ProbeFailed
    /\ px.reconnect = "ok" /\ px.issuedOn = 2 /\ px.outcome = "ok"

----------------------------------------------------------------------------
(* Task Waiter: derived quantities *)

WElapsed == w.now - w.start
\* the smallest multiple of the poll interval that is >= n
CeilToInterval(n) == ((n + PollSleep - 1) \div PollSleep) * PollSleep
\* with a clock that only the sleeps advance, the last instant at which a poll
\* is issued: the largest multiple of the interval below the timeout
LastPollInstant(timeout) == CeilToInterval(timeout) - PollSleep
\* only the sleeps advanced the clock
FakeClock == w.latSum = 0

\* the task stops with exit status OK
TaskSucceeds == task.finishes /\ task.exitstatus = "OK"
\* the last poll was issued when the task had stopped, and no poll issued
\* after the task stopped raised
PolledAfterStop ==
    /\ w.polls > 0
    /\ w.start + task.at <= w.lastPollAt
    /\ ~w.lateErr

(* C8, as stated: for every timeout and every task that reaches the
   terminal-success state at some time t < timeout, wait returns Succeeded.
   Stated for the runs the spec names: a clock that only the sleeps advance,
   and no poll that raises. *)
C8_SucceedsBeforeTimeout ==
    (w.pc = "done" /\ TaskSucceeds /\ task.at < w.timeout
        /\ FakeClock /\ w.errs = 0)
    => w.result = TRUE

(* C8, amended: wait returns Succeeded for every task that is in the
   terminal-success state at the instant of a poll that does not raise
   (polls are issued only while elapsed < timeout); with a clock that only
   the sleeps advance and no poll error, that is every task that succeeds at
   t <= the largest multiple of the 2 s interval below the timeout. *)
C8_SucceedsWhenPolled ==
    (w.pc = "done" /\ TaskSucceeds)
    => /\ PolledAfterStop => w.result = TRUE
       /\ (FakeClock /\ w.errs = 0 /\ task.at <= LastPollInstant(w.timeout))
             => w.result = TRUE

C8_Witness ==
    /\ w.pc = "done" /\ w.result = TRUE
    /\ TaskSucceeds /\ task.at > 0 /\ task.at = LastPollInstant(w.timeout)
    /\ FakeClock /\ w.errs = 0 /\ w.polls >= 2

(* C9, as stated: for a task that never reaches a terminal state, wait
   returns TimedOut at exactly start + timeout, for every timeout value.
   Stated for a clock that only the sleeps advance. *)
C9_TimedOutExactlyAtDeadline ==
    (w.pc = "done" /\ ~task.finishes /\ FakeClock)
    => (w.result = FALSE /\ WElapsed = w.timeout)

(* C9, amended: for a task that never reaches a terminal state, wait returns
   False at the first loop check at or after the deadline: never before
   start + timeout, later than it by less than one loop iteration (one poll
   and one 2 s sleep), and, with a clock that only the sleeps advance, at
   start + 2 * ceil(timeout / 2). *)
C9_TimedOutAtFirstCheckAfterDeadline ==
    (w.pc = "done" /\ ~task.finishes)
    => /\ w.result = FALSE
       /\ WElapsed >= w.timeout
       /\ w.polls > 0 => WElapsed - PollSleep - w.lastLat < w.timeout
       /\ FakeClock => WElapsed = CeilToInterval(w.timeout)

C9_Witness ==
    /\ w.pc = "done" /\ ~task.finishes /\ w.result = FALSE
    /\ FakeClock /\ w.timeout % PollSleep = 1
    /\ WElapsed = w.timeout + 1

(* C10, as stated: a task that becomes terminal-success after any number of
   failed polls and before the deadline is still reported as success.
   Stated for a clock that only the sleeps advance and for polls that raise
   only before the task stops. *)
C10_SucceedsAfterFailedPolls ==
    (w.pc = "done" /\ TaskSucceeds /\ task.at < w.timeout
        /\ FakeClock /\ w.errs >= 1 /\ ~w.lateErr)
    => w.result = TRUE

(* C10, amended: a poll that raises does not end the wait; the waiter sleeps
   the same 2 s as after a poll that found the task running and, while
   elapsed < timeout, polls again; a task that is terminal-success at the
   instant of a later poll that does not raise is reported as success,
   whatever the number of polls that raised before. *)
C10_ErrorPollIsRetried ==
    /\ [][(w.pc = "poll" /\ w'.pollRaised)
            => (w'.pc = "sleep" /\ w'.errs = w.errs + 1)]_vars
    /\ [][(w.pc = "sleep" /\ w.pollRaised)
            => (w'.pc = "check" /\ w'.now = w.now + PollSleep)]_vars
    /\ [][(w.pc = "check" /\ WElapsed < w.timeout) => w'.pc = "poll"]_vars
    /\ [](  (w.pc = "done" /\ TaskSucceeds /\ w.errs >= 1 /\ PolledAfterStop)
           => w.result = TRUE)

C10_Witness ==
    /\ w.pc = "done" /\ w.result = TRUE /\ TaskSucceeds
    /\ w.errs >= 2 /\ task.at > 0

(* C11: wait reports success only if some poll observed the task stopped
   with exit status OK; a task that stopped with a failure exit status is
   never reported as success, whatever polls raised before or after it
   stopped. *)
C11_SuccessOnlyWhenObserved ==
    /\ (w.pc = "done" /\ w.result = TRUE)
         => /\ w.sawStopped
            /\ ~w.pollRaised
            /\ TaskSucceeds
            /\ w.start + task.at <= w.lastPollAt
            /\ w.lastPollAt - w.start < w.timeout
    /\ (task.finishes /\ task.exitstatus = "ERR") => w.result = FALSE

C11_Witness ==
    /\ w.pc = "done" /\ w.result = FALSE
    /\ task.finishes /\ task.exitstatus = "ERR" /\ task.at > 0
    /\ w.sawStopped
    /\ w.errs >= 2 /\ w.lateErr

WWaiting == w.pc \in {"check", "poll", "sleep"}

(* C28: with a clock that every sleep advances, both wait loops terminate,
   whatever the polls and queries answer or raise: a started wait_for_task
   call and a started validate_vm invocation always end.  Neither loop is
   still running one retry interval (2 s, 10 s) plus the duration of its last
   remote call after its deadline, and with a clock that only the sleeps
   advance each ends within one interval of the deadline.  A loop that
   reaches its deadline without success ends in a non-success outcome:
   wait_for_task returns False, the address-wait gives no address and
   validate_vm returns degraded. *)
C28_WaitLoopsTerminate ==
    /\ (w.pc # "idle") ~> (w.pc = "done")
    /\ (val[1].pc # "idle") ~> (val[1].pc = "done")
    /\ [](WWaiting => WElapsed - PollSleep - w.lastLat < w.timeout)
    /\ []((w.pc = "done" /\ ~w.sawStopped) =>
             /\ w.result = FALSE
             /\ WElapsed >= w.timeout
             /\ WElapsed - PollSleep - w.lastLat < w.timeout
             /\ FakeClock => WElapsed - PollSleep < w.timeout)
    /\ [](\A r \in ValRuns :
             /\ IpWaiting(r) =>
                   IpElapsed(r) - IpRetryInterval - MaxLatency < IpWaitTimeout
             /\ val[r].exhausted =>
                   /\ VDone(r)
                   /\ val[r].result.status = "degraded"
                   /\ val[r].result.ip = NoIp
                   /\ IpElapsed(r) >= IpWaitTimeout
                   /\ IpElapsed(r) - IpRetryInterval - MaxLatency
                         < IpWaitTimeout
                   /\ IpFakeClock(r) =>
                         IpElapsed(r) - IpRetryInterval < IpWaitTimeout)
C28_Witness ==
    /\ val[1].exhausted
    /\ VDone(1)
    /\ IpElapsed(1) > IpWaitTimeout
    /\ val[1].queries * IpRetryInterval >= IpWaitTimeout

\* the tasks that stop with a failure exit status
FailingTasks == {tk \in Tasks : tk.finishes /\ tk.exitstatus = "ERR"}
\* the values a wait on a failing task returns when a poll observes the
\* failure
FailedOutcomes(timeout) ==
    UNION {WaitForTask(timeout, tk, 0 .. MaxLatency) :
              tk \in {f \in FailingTasks : f.at = 0}}

(* C12: the outcome of a wait whose task did not stop before the deadline
   (TimedOut) differs from the outcome of a wait whose task stopped with a
   failure exit status (Failed): the value returned by a wait that timed out
   is not a value a wait with the same timeout returns for a failed task. *)
C12_TimedOutDiffersFromFailed ==
    (w.pc = "done" /\ ~task.finishes /\ w.timeout > 0)
    => w.result \notin FailedOutcomes(w.timeout)

====
